---- MODULE Spec2Model ----
(***************************************************************************)
(* Chat orchestration core of the knowledge-base chat backend:             *)
(*   EnhancedChatService.ProcessChat   (src/unnamed/part_007)              *)
(*   ChatService.ProcessChat           (src/internal/services/chat.go)     *)
(*   UnifiedAIService.ChatCompletion   (src/internal/services/chat.go)     *)
(* The relational store is two tables (chat_sessions, chat_messages).  A   *)
(* row's id is its position in the table; created_at grows with the id.    *)
(* Every ProcessChat call is a process that performs one store operation   *)
(* or one provider attempt per step, so that concurrent calls interleave   *)
(* exactly where the code touches shared state.                            *)
(***************************************************************************)
EXTENDS Integers, Sequences, FiniteSets, TLC

(* ------------------------------ bounds -------------------------------- *)
NumProcs == 2
MaxCalls == 2
MaxPrior == 12
MaxKnowledgeCalls == 3
MaxDocuments == 2
NumCallers == 2
MaxAssistantCalls == 2
MaxRunMessages == 2
MaxTracked == 3

(* ------------------------- program constants -------------------------- *)
HistoryLimit == 10
\* UnifiedAIService.GenerateTitle: "%.50s"; SummarizeContent: "%.200s"
TitleLimit == 50
SummaryLimit == 200
\* createEmbeddings: ChunkText(fullText, 1000); ChunkText's default size
EmbeddingChunkSize == 1000
DefaultChunkSize == 1000
\* getMessagesWithRunID: limit := 100
ListLimit == 100

Procs == 1..NumProcs
Users == {"u1", "u2"}
Texts == {"a", "b"}

OpenAIProvider == "openai"
GeminiProvider == "gemini"
Providers == {OpenAIProvider, GeminiProvider}
\* a preferred_provider string that names neither adapter
OtherProvider == "other"
NoProvider == ""

\* the two chat services of the repository
Enhanced == "enhanced"
Legacy == "legacy"

\* *uuid.UUID session ids of a request: nil, an id no row has, or a row's id
NoSession == 0
UnknownSession == 0 - 1

GeminiModel == "gemini-1.5-pro"

VARIABLES
  sessions,          \* chat_sessions rows: [user, title, active]
  messages,          \* chat_messages rows: [session, role, content, metadata]
  msgCall,           \* for each message row, the number of the call that wrote it
  calls,             \* number of ProcessChat calls started so far
  primaryProvider, fallbackProvider,   \* UnifiedAIService fields
  openAIService, geminiService,        \* TRUE iff the adapter pointer is non-nil
  pc, callNo, req,                     \* per process: position, call number, request
  session, userMessage,                \* resolved session id, id of the inbound row
  knowledgeEntries, searchErr,         \* result of SearchKnowledgeEntries
  recentMessages, snapLen, histErr,    \* rows read by the history query
  aiMessages,                          \* the message list built for the provider
  attempts,                            \* provider attempts of the call, in order
  aiResponse, response, err,
  setPrimary,        \* the last SetPrimaryProvider call: its argument and outcome
  kEntries,          \* knowledge_entries rows
  kEmbeddings,       \* vector_embeddings rows
  vectors,           \* points held by the external vector index
  kCall,             \* the last knowledge-entry write: operation, entry and outcome
  searchCall,        \* the last SearchKnowledgeEntries call and what it returned
  kCalls,            \* number of knowledge-entry writes made so far
  helperCall,        \* the last title, summary or keyword call and what it returned
  documents,         \* uploaded_documents rows
  uploads,           \* per document: the response of UploadDocument, the position
                     \* of its background task and the status writes it made
  deleteCall,        \* the last DeleteChatSession call and the error it returned
  threads,           \* per thread of the Assistants API: its messages, oldest first
  runs,              \* the runs created so far: [thread, status, posted]
  assistant,         \* per caller of ChatWithAssistant: position and locals
  assistantCalls,    \* number of ChatWithAssistant calls started so far
  topicStats,        \* topic_question_stats rows: [topicID, count]
  timeStats,         \* time_distribution_stats rows: [timeRange, count]
  tracker,           \* per handler: position in the tracking logic and its copies
  tracked,           \* per bucket: the requests that have passed the tracking step
  trackCalls,        \* number of requests that have reached the tracking logic
  compare,           \* the CompareProviders handler: position, inputs and its two maps
  chunkCall          \* a ChunkText call: its arguments and what it returned

storeVars == <<sessions, messages, msgCall, calls>>
aiVars == <<primaryProvider, fallbackProvider, openAIService, geminiService, setPrimary>>
knowledgeVars == <<kEntries, kEmbeddings, vectors, kCall, searchCall, kCalls>>
procVars == <<pc, callNo, req, session, userMessage, knowledgeEntries, searchErr,
              recentMessages, snapLen, histErr, aiMessages, attempts,
              aiResponse, response, err>>
assistantVars == <<threads, runs, assistant, assistantCalls>>
statVars == <<topicStats, timeStats, tracker, tracked, trackCalls>>
auxVars == <<helperCall, documents, uploads, deleteCall, assistantVars, statVars, compare,
            chunkCall>>
vars == <<storeVars, aiVars, procVars, knowledgeVars, auxVars>>

Min(a, b) == IF a < b THEN a ELSE b
Range(s) == {s[i] : i \in 1..Len(s)}
Reverse(s) == [i \in 1..Len(s) |-> s[Len(s) + 1 - i]]
Take(s, k) == SubSeq(s, 1, Min(k, Len(s)))

(* ------------------------------ metadata ------------------------------ *)
\* Metadata "{}" of a user message (and of every message of ChatService).
EmptyMetadata == [provider |-> NoProvider, model |-> "", sources |-> <<>>]
\* json.Marshal of {provider, model, sources}
buildMetadata(provider, model, sources) ==
  [provider |-> provider, model |-> model, sources |-> sources]

NoRequest == [svc |-> Enhanced, message |-> "", userID |-> "", sessionID |-> NoSession,
              preferredProvider |-> NoProvider]
NoAIResponse == [message |-> "", sources |-> <<>>, provider |-> NoProvider, model |-> ""]
NoError == [kind |-> "", primary |-> NoProvider, fallback |-> NoProvider]
Error(kind) == [kind |-> kind, primary |-> NoProvider, fallback |-> NoProvider]
NoResponse == [ok |-> FALSE, message |-> "", sessionID |-> NoSession, sources |-> <<>>,
               provider |-> NoProvider, model |-> ""]

(* ------------------------- session resolution ------------------------- *)
\* a lookup by id alone, whoever owns the session
FindSessionAnyOwner(userID, sessionID) ==
  {s \in 1..Len(sessions) : s = sessionID /\ sessions[s].active}

\* WHERE id = ? AND user_id = ? AND is_active = true
FindSession(userID, sessionID) ==
  {s \in 1..Len(sessions) : /\ s = sessionID
                            /\ sessions[s].user = userID
                            /\ sessions[s].active}

NewSession(userID) == [user |-> userID, title |-> "New Chat", active |-> TRUE]

\* The requests a caller can send: every combination of the given field
\* values.  ChatRequest (ChatService) has no preferred_provider field.
Requests(svcs, texts, users, sessionIDs, preferred) ==
  {r \in [svc : svcs, message : texts, userID : users, sessionID : sessionIDs,
          preferredProvider : preferred] :
     r.svc = Legacy => r.preferredProvider = NoProvider}

\* nil, an id no row has, or the id of a row
SessionIDs == {NoSession, UnknownSession} \cup (1..Len(sessions))

\* an error branch without its return: the handler goes on to the next step
FailAndContinue(p, e) ==
  /\ pc' = [pc EXCEPT ![p] = "saveAssistant"]
  /\ err' = [err EXCEPT ![p] = e]

Fail(p, e) ==
  /\ pc' = [pc EXCEPT ![p] = "done"]
  /\ err' = [err EXCEPT ![p] = e]

\* a handler that is not serving a call; a new request goes to the first one
Free(p) == pc[p] \in {"idle", "done"}
FirstFree(p) == Free(p) /\ \A q \in Procs : Free(q) => p <= q

\* a session resolution that goes on to the next step when the creation of
\* the session has failed
getOrCreateSessionIgnoringError(p, r, lookupOK, dbOK) ==
  /\ FirstFree(p)
  /\ calls < MaxCalls
  /\ calls' = calls + 1
  /\ callNo' = [callNo EXCEPT ![p] = calls + 1]
  /\ req' = [req EXCEPT ![p] = r]
  /\ IF r.sessionID # NoSession /\ lookupOK /\ FindSession(r.userID, r.sessionID) # {}
       THEN /\ session' = [session EXCEPT ![p] = r.sessionID]
            /\ err' = [err EXCEPT ![p] = NoError]
            /\ UNCHANGED sessions
       ELSE IF dbOK
         THEN /\ sessions' = Append(sessions, NewSession(r.userID))
              /\ session' = [session EXCEPT ![p] = Len(sessions) + 1]
              /\ err' = [err EXCEPT ![p] = NoError]
         ELSE /\ err' = [err EXCEPT ![p] = Error("create session failed")]
              /\ session' = [session EXCEPT ![p] = NoSession]
              /\ UNCHANGED sessions
  /\ pc' = [pc EXCEPT ![p] = "saveUser"]
  /\ userMessage' = [userMessage EXCEPT ![p] = 0]
  /\ knowledgeEntries' = [knowledgeEntries EXCEPT ![p] = <<>>]
  /\ searchErr' = [searchErr EXCEPT ![p] = FALSE]
  /\ recentMessages' = [recentMessages EXCEPT ![p] = <<>>]
  /\ snapLen' = [snapLen EXCEPT ![p] = 0]
  /\ histErr' = [histErr EXCEPT ![p] = FALSE]
  /\ aiMessages' = [aiMessages EXCEPT ![p] = <<>>]
  /\ attempts' = [attempts EXCEPT ![p] = <<>>]
  /\ aiResponse' = [aiResponse EXCEPT ![p] = NoAIResponse]
  /\ response' = [response EXCEPT ![p] = NoResponse]
  /\ UNCHANGED <<messages, msgCall, aiVars, knowledgeVars, auxVars>>

\* ProcessChat, step 1: getOrCreateSession.  A supplied id is looked up with
\* owner and active flag; any lookup failure (no such row, or a failed query:
\* lookupOK = FALSE) falls through to creation.
getOrCreateSession(p, r, lookupOK, dbOK) ==
  /\ FirstFree(p)
  /\ calls < MaxCalls
  /\ calls' = calls + 1
  /\ callNo' = [callNo EXCEPT ![p] = calls + 1]
  /\ req' = [req EXCEPT ![p] = r]
  /\ IF r.sessionID # NoSession /\ lookupOK /\ FindSession(r.userID, r.sessionID) # {}
       THEN /\ session' = [session EXCEPT ![p] = r.sessionID]
            /\ pc' = [pc EXCEPT ![p] = "saveUser"]
            /\ err' = [err EXCEPT ![p] = NoError]
            /\ UNCHANGED sessions
       ELSE IF dbOK
         THEN /\ sessions' = Append(sessions, NewSession(r.userID))
              /\ session' = [session EXCEPT ![p] = Len(sessions) + 1]
              /\ pc' = [pc EXCEPT ![p] = "saveUser"]
              /\ err' = [err EXCEPT ![p] = NoError]
         ELSE /\ Fail(p, Error("create session failed"))
              /\ session' = [session EXCEPT ![p] = NoSession]
              /\ UNCHANGED sessions
  \* the locals of the handler's previous call are gone
  /\ userMessage' = [userMessage EXCEPT ![p] = 0]
  /\ knowledgeEntries' = [knowledgeEntries EXCEPT ![p] = <<>>]
  /\ searchErr' = [searchErr EXCEPT ![p] = FALSE]
  /\ recentMessages' = [recentMessages EXCEPT ![p] = <<>>]
  /\ snapLen' = [snapLen EXCEPT ![p] = 0]
  /\ histErr' = [histErr EXCEPT ![p] = FALSE]
  /\ aiMessages' = [aiMessages EXCEPT ![p] = <<>>]
  /\ attempts' = [attempts EXCEPT ![p] = <<>>]
  /\ aiResponse' = [aiResponse EXCEPT ![p] = NoAIResponse]
  /\ response' = [response EXCEPT ![p] = NoResponse]
  /\ UNCHANGED <<messages, msgCall, aiVars, knowledgeVars, auxVars>>

\* userMessage := &models.ChatMessage{SessionID, Role: "user", Content, Metadata: "{}"}
UserMessageRow(sessionID, text) ==
  [session |-> sessionID, role |-> "user", content |-> text, metadata |-> EmptyMetadata]

\* a step 2 whose failed write is only logged: the call goes on to the
\* search and the provider without a stored user message
SaveUserMessageBestEffort(p, dbOK) ==
  /\ pc[p] = "saveUser"
  /\ IF dbOK
       THEN /\ messages' = Append(messages, UserMessageRow(session[p], req[p].message))
            /\ msgCall' = Append(msgCall, callNo[p])
            /\ userMessage' = [userMessage EXCEPT ![p] = Len(messages) + 1]
       ELSE UNCHANGED <<messages, msgCall, userMessage>>
  /\ pc' = [pc EXCEPT ![p] = "history"]
  /\ UNCHANGED <<sessions, calls, aiVars, knowledgeVars, auxVars, callNo, req, session,
                 knowledgeEntries, searchErr, recentMessages, snapLen, histErr,
                 aiMessages, attempts, aiResponse, response, err>>

\* ProcessChat, step 2: persist the inbound message with role user.
SaveUserMessage(p, dbOK) ==
  /\ pc[p] = "saveUser"
  /\ IF dbOK
       THEN /\ messages' = Append(messages, UserMessageRow(session[p], req[p].message))
            /\ msgCall' = Append(msgCall, callNo[p])
            /\ userMessage' = [userMessage EXCEPT ![p] = Len(messages) + 1]
            /\ pc' = [pc EXCEPT ![p] = "history"]
            /\ UNCHANGED err
       ELSE /\ Fail(p, Error("save user message failed"))
            /\ UNCHANGED <<messages, msgCall, userMessage>>
  /\ UNCHANGED <<sessions, calls, aiVars, knowledgeVars, auxVars, callNo, req, session, knowledgeEntries,
                 searchErr, recentMessages, snapLen, histErr, aiMessages, attempts,
                 aiResponse, response>>

(* -------------------------- knowledge search -------------------------- *)
KnowledgeEntry == [id |-> "k1", title |-> "t1", content |-> "c1"]
\* What SearchKnowledgeEntries can hand back (return entries, err): an error
\* with no entries, an error together with the entries the query had already
\* loaded (the error of a Preload that runs after the rows were read), no
\* entry, or the matching entry.
SearchResults == {[err |-> TRUE, entries |-> <<>>],
                  [err |-> TRUE, entries |-> <<KnowledgeEntry>>],
                  [err |-> FALSE, entries |-> <<>>],
                  [err |-> FALSE, entries |-> <<KnowledgeEntry>>]}

\* The entries ProcessChat goes on with: ChatService replaces them by an empty
\* list when the search returned an error, EnhancedChatService keeps what the
\* search returned.
EntriesAfterSearch(svc, res) ==
  IF svc = Legacy /\ res.err THEN <<>> ELSE res.entries

\* ProcessChat, step 4: one context string per entry.
BuildContext(svc, entries) ==
  [i \in 1..Len(entries) |->
     <<entries[i].title, IF svc = Enhanced THEN ": " ELSE "\n", entries[i].content>>]

\* The sources of the response: entry ids (enhanced) or titles (legacy).
BuildSources(svc, entries) ==
  [i \in 1..Len(entries) |->
     IF svc = Enhanced THEN entries[i].id ELSE entries[i].title]

(* -------------------------- history assembly -------------------------- *)
\* the ids of the first n rows, newest first, whatever their session
AllIdsDesc(sid, n) == [i \in 1..n |-> n + 1 - i]

RECURSIVE SessionIdsDesc(_, _)
\* ids of the session's rows among the first n rows, newest first
SessionIdsDesc(sid, n) ==
  IF n = 0 THEN <<>>
  ELSE IF messages[n].session = sid
         THEN <<n>> \o SessionIdsDesc(sid, n - 1)
         ELSE SessionIdsDesc(sid, n - 1)

\* a read that leaves out the user rows no reply has followed yet
getRecentAnswered(sid, limit) ==
  Take(SelectSeq(SessionIdsDesc(sid, Len(messages)),
                 LAMBDA i : \/ messages[i].role # "user"
                            \/ \E j \in 1..Len(messages) :
                                  j > i /\ msgCall[j] = msgCall[i]),
       limit)

\* the same query with no LIMIT
getAllMessages(sid, limit) == SessionIdsDesc(sid, Len(messages))

\* WHERE session_id = ? ORDER BY created_at DESC LIMIT limit
getRecentMessages(sid, limit) == Take(SessionIdsDesc(sid, Len(messages)), limit)

\* dropping by text instead of by id
NotCurrentByContent(id, current) == messages[id].content # messages[current].content

\* if msg.ID != userMessage.ID
NotCurrent(id, current) == id # current

\* role := string(msg.Role); if role == "assistant" { role = "model" }
EnhancedRole(role) == IF role = "assistant" THEN "model" ELSE role

\* GeminiService.convertRole: "assistant" and "model" become "model", every
\* other role "user"
convertRole(role) ==
  IF role = "user" THEN "user"
  ELSE IF role \in {"assistant", "model"} THEN "model" ELSE "user"

\* The role label a provider receives for a message of the list: callOpenAI
\* and OpenAIService.ChatCompletion copy msg.Role, GeminiService.ChatCompletion
\* converts it.
AdapterRole(provider, role) ==
  IF provider = GeminiProvider THEN convertRole(role) ELSE role

\* EnhancedChatService: for _, msg := range recentMessages
EnhancedOrder(rows) == rows
\* ChatService: for i := len(recentMessages) - 1; i >= 0; i--
LegacyOrder(rows) == Reverse(rows)

UserTurn(text) == [role |-> "user", content |-> text]

\* a message list that opens with the current message
BuildMessagesCurrentFirst(svc, rows, current, text) ==
  LET ordered == IF svc = Enhanced THEN EnhancedOrder(rows) ELSE LegacyOrder(rows)
      kept == SelectSeq(ordered, LAMBDA id : NotCurrent(id, current))
  IN  <<UserTurn(text)>> \o
      [k \in 1..Len(kept) |->
         [role |-> IF svc = Enhanced THEN EnhancedRole(messages[kept[k]].role)
                   ELSE messages[kept[k]].role,
          content |-> messages[kept[k]].content]]

\* The message list for the provider: the history rows other than the
\* inbound row, then the current message.
BuildMessages(svc, rows, current, text) ==
  LET ordered == IF svc = Enhanced THEN EnhancedOrder(rows) ELSE LegacyOrder(rows)
      kept == SelectSeq(ordered, LAMBDA id : NotCurrent(id, current))
  IN  [k \in 1..Len(kept) |->
         [role |-> IF svc = Enhanced THEN EnhancedRole(messages[kept[k]].role)
                   ELSE messages[kept[k]].role,
          content |-> messages[kept[k]].content]]
      \o <<UserTurn(text)>>

\* ProcessChat, steps 3 to 5: the knowledge search (its error is logged and
\* swallowed), then the read of the recent rows (a failed read yields none)
\* and the message list built from them.
AssembleHistory(p, res, dbOK) ==
  /\ pc[p] = "history"
  /\ knowledgeEntries' = [knowledgeEntries EXCEPT ![p] =
        EntriesAfterSearch(req[p].svc, res)]
  /\ searchErr' = [searchErr EXCEPT ![p] = res.err]
  /\ LET rows == IF dbOK THEN getRecentMessages(session[p], HistoryLimit) ELSE <<>>
     IN /\ recentMessages' = [recentMessages EXCEPT ![p] = rows]
        /\ aiMessages' = [aiMessages EXCEPT ![p] =
              BuildMessages(req[p].svc, rows, userMessage[p], req[p].message)]
  /\ snapLen' = [snapLen EXCEPT ![p] = Len(messages)]
  /\ histErr' = [histErr EXCEPT ![p] = ~dbOK]
  /\ pc' = [pc EXCEPT ![p] = "dispatch"]
  /\ UNCHANGED <<storeVars, aiVars, knowledgeVars, auxVars, callNo, req, session, userMessage, attempts,
                 aiResponse, response, err>>

(* ----------------------- unified AI orchestrator ---------------------- *)
\* NewUnifiedAIService: the fallback is the other provider of the pair
NewFallbackProvider(primary) ==
  IF primary = GeminiProvider THEN OpenAIProvider ELSE GeminiProvider

\* a provider choice fixed at construction: the primary NewUnifiedAIService got
SelectProviderAtStartup(preferredProvider) ==
  IF preferredProvider # NoProvider THEN preferredProvider
  ELSE NewFallbackProvider(fallbackProvider)

\* ChatCompletion: provider := s.primaryProvider; a non-empty
\* req.PreferredProvider replaces it
SelectProvider(preferredProvider) ==
  IF preferredProvider # NoProvider THEN preferredProvider ELSE primaryProvider

\* callProvider reaches an adapter only for a known provider whose service
\* pointer is non-nil (callOpenAI / callGemini return an error otherwise)
AdapterPresent(provider) ==
  \/ provider = OpenAIProvider /\ openAIService
  \/ provider = GeminiProvider /\ geminiService

\* the reply text of a provider
ReplyOf(provider) == IF provider = OpenAIProvider THEN "reply-openai" ELSE "reply-gemini"
\* callOpenAI sets Model "openai", callGemini the adapter's model name
ModelOf(provider) == IF provider = OpenAIProvider THEN "openai" ELSE GeminiModel

Attempt(provider, ok) ==
  [provider |-> provider, adapter |-> AdapterPresent(provider), ok |-> ok]

\* a provider attempt that may succeed whether or not an adapter exists
CallOutcomesIgnoringAdapter(provider) == BOOLEAN

\* the outcomes callProvider can have: an error without an adapter call, or
\* whatever the adapter call yields
CallOutcomes(provider) == IF AdapterPresent(provider) THEN BOOLEAN ELSE {FALSE}

\* response.Provider = provider, on top of what callOpenAI/callGemini return
UnifiedResponse(answered, labelled, context) ==
  [message |-> ReplyOf(answered), sources |-> context, provider |-> labelled,
   model |-> ModelOf(answered)]

\* after a successful fallback: provider = s.fallbackProvider
FallbackLabel(first, fallback) == fallback

\* an error that names the configured primary and the fallback
BothFailedNamingPrimary(first, fallback) ==
  [kind |-> "both AI providers failed", primary |-> primaryProvider,
   fallback |-> fallback]

\* the error of a call whose two attempts failed
BothFailed(first, fallback) ==
  [kind |-> "both AI providers failed", primary |-> first, fallback |-> fallback]

\* UseKnowledgeBase: len(context) > 0
UseKnowledgeBase(context) == Len(context) > 0

\* aiRequest := UnifiedChatRequest{Messages, Context, UseKnowledgeBase,
\* PreferredProvider} (ChatService builds the same Messages, Context and
\* UseKnowledgeBase into its OpenAIChatRequest)
aiRequest(p) ==
  LET context == BuildContext(req[p].svc, knowledgeEntries[p])
  IN  [messages |-> aiMessages[p],
       context |-> context,
       useKnowledgeBase |-> UseKnowledgeBase(context),
       preferredProvider |-> req[p].preferredProvider]

\* ProcessChat, step 6 (enhanced): ChatCompletion.  One attempt against the
\* selected provider; if it fails, one against s.fallbackProvider.  ok1 and
\* ok2 are what the two attempts yield.
ChatCompletion(p, ok1, ok2) ==
  /\ pc[p] = "dispatch"
  /\ req[p].svc = Enhanced
  /\ LET provider == SelectProvider(aiRequest(p).preferredProvider)
         fallback == fallbackProvider
         context == aiRequest(p).context
     IN /\ ok1 \in CallOutcomes(provider)
        /\ IF ok1
             THEN /\ ok2 = FALSE
                  /\ attempts' = [attempts EXCEPT ![p] = <<Attempt(provider, TRUE)>>]
                  /\ aiResponse' = [aiResponse EXCEPT ![p] =
                         UnifiedResponse(provider, provider, context)]
                  /\ pc' = [pc EXCEPT ![p] = "saveAssistant"]
                  /\ UNCHANGED err
             ELSE /\ ok2 \in CallOutcomes(fallback)
                  /\ attempts' = [attempts EXCEPT ![p] =
                         <<Attempt(provider, FALSE), Attempt(fallback, ok2)>>]
                  /\ IF ok2
                       THEN /\ aiResponse' = [aiResponse EXCEPT ![p] =
                                   UnifiedResponse(fallback,
                                                   FallbackLabel(provider, fallback),
                                                   context)]
                            /\ pc' = [pc EXCEPT ![p] = "saveAssistant"]
                            /\ UNCHANGED err
                       ELSE /\ Fail(p, BothFailed(provider, fallback))
                            /\ UNCHANGED aiResponse
  /\ UNCHANGED <<storeVars, aiVars, knowledgeVars, auxVars, callNo, req, session, userMessage, knowledgeEntries,
                 searchErr, recentMessages, snapLen, histErr, aiMessages, response>>

\* ProcessChat, step 6 (legacy): one call of the OpenAI adapter, no fallback
LegacyCompletion(p, ok) ==
  /\ pc[p] = "dispatch"
  /\ req[p].svc = Legacy
  /\ attempts' = [attempts EXCEPT ![p] =
        Append(@, [provider |-> OpenAIProvider, adapter |-> TRUE, ok |-> ok])]
  /\ IF ok
       THEN /\ aiResponse' = [aiResponse EXCEPT ![p] =
                   [message |-> ReplyOf(OpenAIProvider),
                    sources |-> aiRequest(p).context,
                    provider |-> NoProvider, model |-> ""]]
            /\ pc' = [pc EXCEPT ![p] = "saveAssistant"]
            /\ UNCHANGED err
       ELSE /\ Fail(p, Error("OpenAI API error"))
            /\ UNCHANGED aiResponse
  /\ UNCHANGED <<storeVars, aiVars, knowledgeVars, auxVars, callNo, req, session, userMessage, knowledgeEntries,
                 searchErr, recentMessages, snapLen, histErr, aiMessages, response>>

\* the reply stored under the role name the provider uses
AssistantMessageRowAsModel(svc, sessionID, reply) ==
  [session |-> sessionID, role |-> "model", content |-> reply.message,
   metadata |-> IF svc = Enhanced
                  THEN buildMetadata(reply.provider, reply.model, reply.sources)
                  ELSE EmptyMetadata]

\* assistantMessage := &models.ChatMessage{SessionID, Role: "assistant",
\* Content: aiResponse.Message, Metadata}; ChatService stores Metadata "{}"
AssistantMessageRow(svc, sessionID, reply) ==
  [session |-> sessionID, role |-> "assistant", content |-> reply.message,
   metadata |-> IF svc = Enhanced
                  THEN buildMetadata(reply.provider, reply.model, reply.sources)
                  ELSE EmptyMetadata]

\* steps 7 and 8 with a failed write that is only logged: the reply is
\* returned although its row was not stored
SaveAssistantMessageBestEffort(p, dbOK) ==
  /\ pc[p] = "saveAssistant"
  /\ IF dbOK
       THEN /\ messages' = Append(messages,
                   AssistantMessageRow(req[p].svc, session[p], aiResponse[p]))
            /\ msgCall' = Append(msgCall, callNo[p])
       ELSE UNCHANGED <<messages, msgCall>>
  /\ response' = [response EXCEPT ![p] =
         [ok |-> TRUE, message |-> aiResponse[p].message,
          sessionID |-> session[p],
          sources |-> BuildSources(req[p].svc, knowledgeEntries[p]),
          provider |-> aiResponse[p].provider,
          model |-> aiResponse[p].model]]
  /\ pc' = [pc EXCEPT ![p] = "done"]
  /\ UNCHANGED <<sessions, calls, aiVars, knowledgeVars, auxVars, callNo, req, session,
                 userMessage, knowledgeEntries, searchErr, recentMessages, snapLen,
                 histErr, aiMessages, attempts, aiResponse, err>>

\* ProcessChat, steps 7 and 8: persist the reply with role assistant, then
\* assemble the response; a failed write discards the reply.
SaveAssistantMessage(p, dbOK) ==
  /\ pc[p] = "saveAssistant"
  /\ IF dbOK
       THEN /\ messages' = Append(messages,
                   AssistantMessageRow(req[p].svc, session[p], aiResponse[p]))
            /\ msgCall' = Append(msgCall, callNo[p])
            /\ response' = [response EXCEPT ![p] =
                   [ok |-> TRUE, message |-> aiResponse[p].message,
                    sessionID |-> session[p],
                    sources |-> BuildSources(req[p].svc, knowledgeEntries[p]),
                    provider |-> aiResponse[p].provider,
                    model |-> aiResponse[p].model]]
            /\ pc' = [pc EXCEPT ![p] = "done"]
            /\ UNCHANGED err
       ELSE /\ Fail(p, Error("save assistant message failed"))
            /\ UNCHANGED <<messages, msgCall, response>>
  /\ UNCHANGED <<sessions, calls, aiVars, knowledgeVars, auxVars, callNo, req, session, userMessage,
                 knowledgeEntries, searchErr, recentMessages, snapLen, histErr,
                 aiMessages, attempts, aiResponse>>

(* ----------------------- administrative operations -------------------- *)
\* the rows of WHERE id = ? AND user_id = ?
OwnedSessions(userID, sessionID) ==
  {s \in 1..Len(sessions) : s = sessionID /\ sessions[s].user = userID}

\* UPDATE ... SET is_active = false on the rows matched
Deactivate(rows) ==
  [s \in 1..Len(sessions) |->
     IF s \in rows THEN [sessions[s] EXCEPT !.active = FALSE] ELSE sessions[s]]

\* What DeleteChatSession returns.  The statement is built as
\* db.Where(...).Update("is_active", false), with no Model and no Table:
\* executes tells whether the library runs it as an UPDATE of chat_sessions
\* or rejects it for want of a table, in which case it returns the error and
\* writes nothing.  EnhancedChatService turns zero affected rows into
\* gorm.ErrRecordNotFound; ChatService does not look at the count.
DeleteError(svc, rows, executes) ==
  IF ~executes THEN "table not set"
  ELSE IF svc = Enhanced /\ rows = {} THEN "record not found"
  ELSE ""

\* a delete that also removes the messages of the session
DeleteChatSessionCascade(svc, userID, sessionID, executes) ==
  LET rows == OwnedSessions(userID, sessionID)
  IN /\ sessions' = Deactivate(rows)
     /\ messages' = SelectSeq(messages, LAMBDA m : m.session \notin rows)
     /\ msgCall' = SubSeq(msgCall, 1, Len(messages'))
     /\ deleteCall' = [svc |-> svc, userID |-> userID, sessionID |-> sessionID,
                       err |-> ""]
     /\ UNCHANGED <<calls, aiVars, knowledgeVars, helperCall, documents, uploads,
                    assistantVars, compare, chunkCall, statVars, procVars>>

DeleteChatSession(svc, userID, sessionID, executes) ==
  LET rows == IF executes THEN OwnedSessions(userID, sessionID) ELSE {}
  IN /\ sessions' = Deactivate(rows)
     /\ deleteCall' = [svc |-> svc, userID |-> userID, sessionID |-> sessionID,
                       err |-> DeleteError(svc, rows, executes)]
     /\ UNCHANGED <<messages, msgCall, calls, aiVars, knowledgeVars, helperCall,
                    documents, uploads, assistantVars, compare, chunkCall, statVars, procVars>>

\* a provider list that does not look at the adapters
GetBothProviders == Providers

GetAvailableProviders ==
  (IF openAIService THEN {OpenAIProvider} ELSE {})
    \cup (IF geminiService THEN {GeminiProvider} ELSE {})

\* the primary changes only to an available provider (any other name is an
\* error that changes nothing); the fallback is not touched
SetPrimaryProvider(provider) ==
  /\ primaryProvider' = IF provider \in GetAvailableProviders
                          THEN provider
                          ELSE primaryProvider
  /\ setPrimary' = [provider |-> provider, ok |-> provider \in GetAvailableProviders]
  /\ UNCHANGED <<storeVars, fallbackProvider, openAIService, geminiService, procVars,
                 knowledgeVars, auxVars>>

(* --------------------- title, summary and keywords -------------------- *)
\* A content is a string of equal characters, of one byte ("c") or of two
\* ("e2").
ByteLen(content) ==
  IF content = <<>> THEN 0
  ELSE Len(content) * (IF content[1] = "e2" THEN 2 ELSE 1)
Ellipsis == <<".", ".", ".">>
\* fmt.Sprintf("%.Ns", content), which keeps N characters, followed by "..."
\* if len(content) > N, which counts bytes
Truncated(content, limit) ==
  Take(content, limit) \o (IF ByteLen(content) > limit THEN Ellipsis ELSE <<>>)
DefaultKeywords == <<"content", "document">>

\* what model.GenerateContent yields: an error, a reply without candidates,
\* or a text (after TrimSpace and, for keywords, the split at commas; it can
\* be empty)
GeminiReplies ==
  {[kind |-> "error", value |-> <<>>], [kind |-> "noCandidates", value |-> <<>>],
   [kind |-> "text", value |-> <<>>], [kind |-> "text", value |-> <<"t">>]}
\* GeminiService.GenerateTitle / SummarizeContent / ExtractKeywords
GeminiHelper(reply) ==
  IF reply.kind = "text" THEN [value |-> reply.value, err |-> FALSE]
                         ELSE [value |-> <<>>, err |-> TRUE]

\* if s.geminiService != nil { return s.geminiService.X(ctx, content) };
\* otherwise the local substitute and a nil error
Helper(reply, substitute) ==
  IF geminiService THEN GeminiHelper(reply)
  ELSE [value |-> substitute, err |-> FALSE]

HelperReturns(op, content, reply, substitute) ==
  /\ UNCHANGED <<documents, uploads, deleteCall, assistantVars, compare, chunkCall, statVars>>
  /\ helperCall' = [op |-> op, content |-> content,
                    called |-> geminiService,
                    reply |-> IF geminiService THEN reply.kind ELSE "",
                    value |-> Helper(reply, substitute).value,
                    err |-> Helper(reply, substitute).err]
  /\ UNCHANGED <<storeVars, aiVars, procVars, knowledgeVars>>

GenerateTitle(content, reply) ==
  HelperReturns("title", content, reply, Truncated(content, TitleLimit))
SummarizeContent(content, reply) ==
  HelperReturns("summary", content, reply, Truncated(content, SummaryLimit))
ExtractKeywords(content, reply) ==
  HelperReturns("keywords", content, reply, DefaultKeywords)

(* --------------------------- document upload -------------------------- *)
DocumentUploaded == "uploaded"
DocumentSentToOpenAI == "sent_to_openai"
DocumentAddedToVector == "added_to_vector"
DocumentProcessingFailed == "processing_failed"

\* document := &models.UploadedDocument{..., Status: models.DocumentUploaded}
NewDocument ==
  [status |-> DocumentUploaded, openaiFileID |-> "", vectorFileID |-> "",
   errorMessage |-> ""]

\* updateDocumentStatus: the status, and each of the other fields that is
\* not empty; the result of Updates is not looked at, so a failed write
\* (dbOK = FALSE) leaves the row as it was
updateDocumentStatus(doc, status, openaiFileID, vectorFileID, errorMessage, dbOK) ==
  IF ~dbOK THEN doc
  ELSE [status |-> status,
        openaiFileID |-> IF openaiFileID # "" THEN openaiFileID ELSE doc.openaiFileID,
        vectorFileID |-> IF vectorFileID # "" THEN vectorFileID ELSE doc.vectorFileID,
        errorMessage |-> IF errorMessage # "" THEN errorMessage ELSE doc.errorMessage]

\* UploadDocument: the file is written, the row inserted with status
\* uploaded, the response built from the row, and the background task
\* started.  A failed file write or insert returns an error and leaves no row.
UploadDocument(fileOK, dbOK) ==
  /\ Len(documents) < MaxDocuments
  /\ IF fileOK /\ dbOK
       THEN /\ documents' = Append(documents, NewDocument)
            /\ uploads' = Append(uploads, [response |-> NewDocument.status,
                                           step |-> "uploadToOpenAI",
                                           writes |-> <<>>])
       ELSE UNCHANGED <<documents, uploads>>
  /\ UNCHANGED <<storeVars, aiVars, procVars, knowledgeVars, helperCall, deleteCall,
                 assistantVars, compare, chunkCall, statVars>>

\* one status write of the background task of document d, then its next step
StatusWrite(d, status, openaiFileID, vectorFileID, errorMessage, dbOK, next) ==
  /\ documents' = [documents EXCEPT ![d] =
        updateDocumentStatus(@, status, openaiFileID, vectorFileID, errorMessage, dbOK)]
  /\ uploads' = [uploads EXCEPT ![d].step = next,
                                ![d].writes = Append(@, [status |-> status, ok |-> dbOK])]
  /\ UNCHANGED <<storeVars, aiVars, procVars, knowledgeVars, helperCall, deleteCall,
                 assistantVars, compare, chunkCall, statVars>>

\* processOpenAIUpload, step 1: uploadToOpenAI, then the status write
UploadToOpenAI(d, ok, dbOK) ==
  /\ d \in 1..Len(uploads)
  /\ uploads[d].step = "uploadToOpenAI"
  /\ IF ok
       THEN StatusWrite(d, DocumentSentToOpenAI, "file", "", "", dbOK, "addToVectorStore")
       ELSE StatusWrite(d, DocumentProcessingFailed, "", "", "upload failed", dbOK, "returned")

\* processOpenAIUpload, step 2: addToVectorStore, then the status write
AddToVectorStore(d, ok, dbOK) ==
  /\ d \in 1..Len(uploads)
  /\ uploads[d].step = "addToVectorStore"
  /\ IF ok
       THEN StatusWrite(d, DocumentAddedToVector, "file", "vsfile", "", dbOK, "returned")
       ELSE StatusWrite(d, DocumentProcessingFailed, "file", "", "vector store failed",
                        dbOK, "returned")

(* ------------------------- assistant threads -------------------------- *)
\* s.threadID, the thread of the service, and another thread of the account
DefaultThread == "thread-default"
ThreadIDs == {DefaultThread, "thread-a"}
\* req.ThreadID left empty
NoThread == ""

\* msg.RunID == nil, and the RunID "" of a converted message
NilRun == 0 - 1
EmptyRun == 0

Callers == 1..NumCallers

NoAssistantRequest == [message |-> "", threadID |-> NoThread]
NoAssistantResponse == [threadID |-> NoThread, runID |-> EmptyRun, messages |-> <<>>,
                        status |-> ""]
\* a caller that is not in a ChatWithAssistant call
IdleCaller ==
  [pc |-> "idle", call |-> 0, req |-> NoAssistantRequest, threadID |-> NoThread,
   message |-> 0, run |-> EmptyRun, finalStatus |-> "", waitErr |-> FALSE,
   listed |-> <<>>, response |-> NoAssistantResponse, err |-> "", steps |-> <<>>]

\* threadID := req.ThreadID; if threadID == "" { threadID = s.threadID }
ThreadOf(r) == IF r.threadID = NoThread THEN DefaultThread ELSE r.threadID

\* the message CreateMessage adds: role user, no run
UserThreadMessage(threadID, content) ==
  [id |-> Len(threads[threadID]) + 1, role |-> "user", content |-> content,
   runID |-> NilRun]

\* ChatWithAssistant, step 1: addMessageToThread.  ok is what CreateMessage
\* yields.
addMessageToThread(c, r, ok) ==
  /\ assistant[c].pc \in {"idle", "done"}
  /\ assistantCalls < MaxAssistantCalls
  /\ assistantCalls' = assistantCalls + 1
  /\ LET threadID == ThreadOf(r)
         started == [IdleCaller EXCEPT !.call = assistantCalls + 1, !.req = r,
                                       !.threadID = threadID,
                                       !.steps = <<"addMessage">>]
     IN IF ok
          THEN /\ threads' = [threads EXCEPT ![threadID] =
                      Append(@, UserThreadMessage(threadID, r.message))]
               /\ assistant' = [assistant EXCEPT ![c] =
                      [started EXCEPT !.pc = "createRun",
                                      !.message = Len(threads[threadID]) + 1]]
          ELSE /\ assistant' = [assistant EXCEPT ![c] =
                      [started EXCEPT !.pc = "done",
                                      !.err = "failed to add message to thread"]]
               /\ UNCHANGED threads
  /\ UNCHANGED <<storeVars, aiVars, procVars, knowledgeVars, helperCall, documents,
                 uploads, deleteCall, statVars, compare, chunkCall, runs>>

\* ChatWithAssistant, step 2: createRun.  The id of the run is the one the
\* API hands out; a new run is queued.
createRun(c, ok) ==
  /\ assistant[c].pc = "createRun"
  /\ IF ok
       THEN /\ runs' = Append(runs, [thread |-> assistant[c].threadID,
                                     call |-> assistant[c].call,
                                     status |-> "queued", posted |-> 0])
            /\ assistant' = [assistant EXCEPT ![c].pc = "wait",
                                              ![c].run = Len(runs) + 1,
                                              ![c].steps = Append(@, "createRun")]
       ELSE /\ assistant' = [assistant EXCEPT ![c].pc = "done",
                                              ![c].err = "failed to create run",
                                              ![c].steps = Append(@, "createRun")]
            /\ UNCHANGED runs
  /\ UNCHANGED <<storeVars, aiVars, procVars, knowledgeVars, helperCall, documents,
                 uploads, deleteCall, statVars, compare, chunkCall, threads, assistantCalls>>

\* the statuses after which a run posts nothing more
TerminalStatuses == {"completed", "failed", "cancelled", "expired"}

\* The assistant at work: a run that has not ended posts a message of role
\* assistant, carrying its run id, to its thread.
RunPosts(r) ==
  /\ r \in 1..Len(runs)
  /\ runs[r].status \notin TerminalStatuses
  /\ runs[r].posted < MaxRunMessages
  /\ threads' = [threads EXCEPT ![runs[r].thread] =
        Append(@, [id |-> Len(threads[runs[r].thread]) + 1, role |-> "assistant",
                   content |-> "reply", runID |-> r])]
  /\ runs' = [runs EXCEPT ![r].status = "in_progress", ![r].posted = @ + 1]
  /\ UNCHANGED <<storeVars, aiVars, procVars, knowledgeVars, helperCall, documents,
                 uploads, deleteCall, statVars, compare, chunkCall, assistant, assistantCalls>>

\* a run ends
RunEnds(r, status) ==
  /\ r \in 1..Len(runs)
  /\ runs[r].status \notin TerminalStatuses
  /\ status \in TerminalStatuses
  /\ runs' = [runs EXCEPT ![r].status = status]
  /\ UNCHANGED <<storeVars, aiVars, procVars, knowledgeVars, helperCall, documents,
                 uploads, deleteCall, statVars, compare, chunkCall, threads, assistant, assistantCalls>>

\* how WaitForRunCompletion can return: with the status it polled, at its
\* deadline, or with the error of getRunStatus
WaitOutcomes == {"status", "timeout", "error"}

\* ChatWithAssistant, step 3: WaitForRunCompletion returns.  It returns
\* "completed" and no error for a completed run, the status and an error for
\* a run that failed, was cancelled or expired, and "" and an error at the
\* deadline or when the status cannot be read.  The error is logged only.
WaitForRunCompletion(c, outcome) ==
  /\ assistant[c].pc = "wait"
  /\ outcome = "status" => runs[assistant[c].run].status \in TerminalStatuses
  /\ LET status == runs[assistant[c].run].status
     IN assistant' = [assistant EXCEPT
          ![c].pc = "list",
          ![c].finalStatus = IF outcome = "status" THEN status ELSE "",
          ![c].waitErr = ~(outcome = "status" /\ status = "completed"),
          ![c].steps = Append(@, "wait")]
  /\ UNCHANGED <<storeVars, aiVars, procVars, knowledgeVars, helperCall, documents,
                 uploads, deleteCall, statVars, compare, chunkCall, threads, runs, assistantCalls>>

\* ListMessage(ctx, threadID, &limit, &order, nil, nil): the newest limit
\* messages of the thread, newest first
ListMessage(threadID, limit) == Take(Reverse(threads[threadID]), limit)

\* a filter that keeps the messages of every run
BelongsToAnyRun(msg, runID) == msg.runID # NilRun

\* if msg.RunID != nil && *msg.RunID == runID
BelongsToRun(msg, runID) == msg.runID # NilRun /\ msg.runID = runID

\* convertToAssistantMessage: id, role and content are copied, a nil run id
\* becomes ""
convertToAssistantMessage(msg) ==
  [id |-> msg.id, role |-> msg.role, content |-> msg.content,
   runID |-> IF msg.runID # NilRun THEN msg.runID ELSE EmptyRun]

\* the filter loop of getMessagesWithRunID over the listed messages
MessagesWithRunID(list, runID) ==
  LET kept == SelectSeq(list, LAMBDA msg : BelongsToRun(msg, runID))
  IN  [k \in 1..Len(kept) |-> convertToAssistantMessage(kept[k])]

\* ChatWithAssistant, step 4: getMessagesWithRunID, then the response.
getMessagesWithRunID(c, ok) ==
  /\ assistant[c].pc = "list"
  /\ LET list == ListMessage(assistant[c].threadID, ListLimit)
     IN IF ok
          THEN assistant' = [assistant EXCEPT
                 ![c].pc = "done",
                 ![c].listed = list,
                 ![c].response = [threadID |-> assistant[c].threadID,
                                  runID |-> assistant[c].run,
                                  messages |-> MessagesWithRunID(list, assistant[c].run),
                                  status |-> assistant[c].finalStatus],
                 ![c].steps = Append(@, "listMessages")]
          ELSE assistant' = [assistant EXCEPT
                 ![c].pc = "done",
                 ![c].err = "failed to get messages",
                 ![c].steps = Append(@, "listMessages")]
  /\ UNCHANGED <<storeVars, aiVars, procVars, knowledgeVars, helperCall, documents,
                 uploads, deleteCall, statVars, compare, chunkCall, threads, runs, assistantCalls>>

(* -------------------------- question counters ------------------------- *)
\* the time buckets of the tracking logic: topic id and time range of the
\* hour of the request
Buckets == {1, 2}
TimeRangeOf(topicID) ==
  IF topicID = 1 THEN "Morning (6AM - 12PM)" ELSE "Afternoon (12PM - 6PM)"

NoStatRow == 0
IdleTracker == [pc |-> "idle", topicID |-> 0, topicStat |-> NoStatRow, topicCount |-> 0,
                timeStat |-> NoStatRow, timeCount |-> 0]

\* db.Where("topic_id = ?", topicID).First(&topicStat): the row of the
\* bucket with the smallest primary key, if there is one
FirstTopicStat(topicID) ==
  LET rows == {i \in 1..Len(topicStats) : topicStats[i].topicID = topicID}
  IN IF rows = {} THEN NoStatRow ELSE CHOOSE i \in rows : \A j \in rows : i <= j

\* db.Where("time_range = ?", timeRange).First(&timeStat)
FirstTimeStat(timeRange) ==
  LET rows == {i \in 1..Len(timeStats) : timeStats[i].timeRange = timeRange}
  IN IF rows = {} THEN NoStatRow ELSE CHOOSE i \in rows : \A j \in rows : i <= j

\* the handler reaches the tracking logic: t := time.Now() fixes the bucket
StartTracking(h, topicID) ==
  /\ tracker[h].pc \in {"idle", "done"}
  /\ trackCalls < MaxTracked
  /\ trackCalls' = trackCalls + 1
  /\ tracker' = [tracker EXCEPT ![h] = [IdleTracker EXCEPT !.pc = "readTopic",
                                                          !.topicID = topicID]]
  /\ UNCHANGED <<storeVars, aiVars, procVars, knowledgeVars, helperCall, documents,
                 uploads, deleteCall, assistantVars, compare, chunkCall, topicStats, timeStats, tracked>>

\* the lookup of the TopicQuestionStat row; the row is copied into topicStat
ReadTopicStat(h, lookupOK) ==
  /\ tracker[h].pc = "readTopic"
  /\ LET row == IF lookupOK THEN FirstTopicStat(tracker[h].topicID) ELSE NoStatRow
     IN tracker' = [tracker EXCEPT
          ![h].pc = "writeTopic",
          ![h].topicStat = row,
          ![h].topicCount = IF row = NoStatRow THEN 0 ELSE topicStats[row].count]
  /\ UNCHANGED <<storeVars, aiVars, procVars, knowledgeVars, helperCall, documents,
                 uploads, deleteCall, assistantVars, compare, chunkCall, topicStats, timeStats, tracked,
                 trackCalls>>

\* topicStat.Count++; db.Save(&topicStat) when the row was found,
\* db.Create(&TopicQuestionStat{TopicID, Count: 1}) otherwise; topic_id has a
\* plain index
WriteTopicStat(h) ==
  /\ tracker[h].pc = "writeTopic"
  /\ topicStats' =
       IF tracker[h].topicStat # NoStatRow
         THEN [topicStats EXCEPT ![tracker[h].topicStat].count =
                 tracker[h].topicCount + 1]
         ELSE Append(topicStats, [topicID |-> tracker[h].topicID, count |-> 1])
  /\ tracker' = [tracker EXCEPT ![h].pc = "readTime"]
  /\ UNCHANGED <<storeVars, aiVars, procVars, knowledgeVars, helperCall, documents,
                 uploads, deleteCall, assistantVars, compare, chunkCall, timeStats, tracked, trackCalls>>

\* the lookup of the TimeDistributionStat row
ReadTimeStat(h, lookupOK) ==
  /\ tracker[h].pc = "readTime"
  /\ LET row == IF lookupOK THEN FirstTimeStat(TimeRangeOf(tracker[h].topicID))
                            ELSE NoStatRow
     IN tracker' = [tracker EXCEPT
          ![h].pc = "writeTime",
          ![h].timeStat = row,
          ![h].timeCount = IF row = NoStatRow THEN 0 ELSE timeStats[row].count]
  /\ UNCHANGED <<storeVars, aiVars, procVars, knowledgeVars, helperCall, documents,
                 uploads, deleteCall, assistantVars, compare, chunkCall, topicStats, timeStats, tracked,
                 trackCalls>>

\* timeStat.Count++; db.Save(&timeStat) when the row was found, db.Create
\* otherwise; time_range has a unique index, so a Create for a range that has
\* a row fails, and the error is not looked at.  The request has then passed
\* the tracking step.
WriteTimeStat(h) ==
  /\ tracker[h].pc = "writeTime"
  /\ timeStats' =
       IF tracker[h].timeStat # NoStatRow
         THEN [timeStats EXCEPT ![tracker[h].timeStat].count =
                 tracker[h].timeCount + 1]
         ELSE IF FirstTimeStat(TimeRangeOf(tracker[h].topicID)) # NoStatRow
           THEN timeStats
           ELSE Append(timeStats, [timeRange |-> TimeRangeOf(tracker[h].topicID),
                                   count |-> 1])
  /\ tracker' = [tracker EXCEPT ![h].pc = "done"]
  /\ tracked' = [tracked EXCEPT ![tracker[h].topicID] = @ + 1]
  /\ UNCHANGED <<storeVars, aiVars, procVars, knowledgeVars, helperCall, documents,
                 uploads, deleteCall, assistantVars, compare, chunkCall, topicStats, trackCalls>>

(* ------------------------- provider comparison ------------------------ *)
\* the provider names a comparison request can carry
CompareKeys == Providers \cup {OtherProvider}

\* the longest provider list of a comparison request
MaxCompared == 2

\* the lists of up to n provider names
ProviderLists(n) == UNION {[1..k -> CompareKeys] : k \in 0..n}

\* GetAvailableProviders, in the order CompareProviders appends them
AvailableProviderList ==
  (IF openAIService THEN <<OpenAIProvider>> ELSE <<>>)
    \o (IF geminiService THEN <<GeminiProvider>> ELSE <<>>)

\* responses := make(map[string]*EnhancedChatResponse); errors :=
\* make(map[string]string): a key without entry maps to NoResponse, to ""
NoResponses == [k \in CompareKeys |-> NoResponse]
NoErrors == [k \in CompareKeys |-> ""]

NoCompare ==
  [pc |-> "idle", message |-> "", userID |-> "", providers |-> <<>>, i |-> 0,
   base |-> 0, sessionsBefore |-> 0, responses |-> NoResponses, errors |-> NoErrors]

\* chatReq := EnhancedChatRequest{Message, UserID, PreferredProvider}: no
\* session id
CompareRequest(message, userID, provider) ==
  [svc |-> Enhanced, message |-> message, userID |-> userID, sessionID |-> NoSession,
   preferredProvider |-> provider]

\* if len(req.Providers) == 0: all available providers
ComparedProviders(providers) ==
  IF Len(providers) = 0 THEN AvailableProviderList ELSE providers

\* CompareProviders up to the loop: an empty provider list is replaced by
\* the available providers.  base is the number of ProcessChat calls made
\* before the handler (the handler is the only caller while it runs).
CompareProviders(message, userID, providers) ==
  /\ compare.pc \in {"idle", "done"}
  /\ \A p \in Procs : Free(p)
  /\ calls + Len(ComparedProviders(providers)) <= MaxCalls
  /\ compare' = [pc |-> "loop", message |-> message, userID |-> userID,
                 providers |-> ComparedProviders(providers),
                 i |-> 1, base |-> calls, sessionsBefore |-> Len(sessions),
                 responses |-> NoResponses, errors |-> NoErrors]
  /\ UNCHANGED <<storeVars, aiVars, procVars, knowledgeVars, helperCall, documents,
                 uploads, deleteCall, assistantVars, statVars, chunkCall>>

\* the loop body up to the first step of ProcessChat, for the provider at i
CompareCall(p, dbOK) ==
  /\ compare.pc = "loop"
  /\ compare.i <= Len(compare.providers)
  /\ calls = compare.base + compare.i - 1
  /\ getOrCreateSession(p, CompareRequest(compare.message, compare.userID,
                                          compare.providers[compare.i]), TRUE, dbOK)

\* the loop body after ProcessChat has returned: errors[providerStr] =
\* err.Error() or responses[providerStr] = response, then the next provider
\* or the reply
CompareRecord(p) ==
  /\ compare.pc = "loop"
  /\ compare.i <= Len(compare.providers)
  /\ callNo[p] = compare.base + compare.i
  /\ pc[p] = "done"
  /\ LET providerStr == compare.providers[compare.i]
     IN compare' = [compare EXCEPT
           !.responses = IF response[p].ok
                           THEN [@ EXCEPT ![providerStr] = response[p]] ELSE @,
           !.errors = IF response[p].ok
                        THEN @ ELSE [@ EXCEPT ![providerStr] = err[p].kind],
           !.i = @ + 1,
           !.pc = IF compare.i = Len(compare.providers) THEN "done" ELSE "loop"]
  /\ UNCHANGED <<storeVars, aiVars, procVars, knowledgeVars, helperCall, documents,
                 uploads, deleteCall, assistantVars, statVars, chunkCall>>

(* ------------------------------- texts -------------------------------- *)
\* A text is a sequence of tokens: a token is a word, a whitespace character
\* or a character that LIKE reads as a wildcard.  "w600" is a word of 600
\* bytes.
Whitespace == {" ", "\n"}
LongWord == "w600"
TokenLen(token) ==
  CASE token = "payment" -> 7
    [] token = "PAYMENT" -> 7
    [] token = "error" -> 5
    [] token = "refund" -> 6
    [] token = LongWord -> 600
    [] OTHER -> 1

RECURSIVE TextLen(_)
TextLen(text) == IF text = <<>> THEN 0 ELSE TokenLen(Head(text)) + TextLen(Tail(text))

RECURSIVE FieldsFrom(_, _)
\* strings.Fields: the maximal runs of non-whitespace, in order
FieldsFrom(text, word) ==
  IF text = <<>> THEN (IF word = <<>> THEN <<>> ELSE <<word>>)
  ELSE IF Head(text) \in Whitespace
         THEN (IF word = <<>> THEN <<>> ELSE <<word>>) \o FieldsFrom(Tail(text), <<>>)
         ELSE FieldsFrom(Tail(text), Append(word, Head(text)))
Fields(text) == FieldsFrom(text, <<>>)

RECURSIVE TrimLeft(_)
TrimLeft(text) ==
  IF text # <<>> /\ Head(text) \in Whitespace THEN TrimLeft(Tail(text)) ELSE text

\* strings.TrimSpace: the text without its leading and trailing whitespace
TrimSpace(text) == Reverse(TrimLeft(Reverse(TrimLeft(text))))

RECURSIVE ChunkWordsDroppingOverflow(_, _, _)
\* a loop that closes the chunk and forgets the word that did not fit
ChunkWordsDroppingOverflow(words, currentChunk, maxChunkSize) ==
  IF words = <<>>
    THEN (IF TextLen(currentChunk) > 0 THEN <<TrimSpace(currentChunk)>> ELSE <<>>)
    ELSE LET word == Head(words)
         IN IF /\ TextLen(currentChunk) > 0
               /\ TextLen(currentChunk) + TextLen(word) + 1 > maxChunkSize
              THEN <<TrimSpace(currentChunk)>>
                     \o ChunkWordsDroppingOverflow(Tail(words), <<>>, maxChunkSize)
              ELSE ChunkWordsDroppingOverflow(Tail(words),
                              IF TextLen(currentChunk) > 0
                                THEN currentChunk \o <<" ">> \o word
                                ELSE word,
                              maxChunkSize)

RECURSIVE ChunkWords(_, _, _)
\* the loop of ChunkText: a word that would take the current chunk past the
\* size closes it; words of a chunk are joined by one blank
ChunkWords(words, currentChunk, maxChunkSize) ==
  IF words = <<>>
    THEN (IF TextLen(currentChunk) > 0 THEN <<TrimSpace(currentChunk)>> ELSE <<>>)
    ELSE LET word == Head(words)
         IN IF /\ TextLen(currentChunk) > 0
               /\ TextLen(currentChunk) + TextLen(word) + 1 > maxChunkSize
              THEN <<TrimSpace(currentChunk)>> \o ChunkWords(Tail(words), word, maxChunkSize)
              ELSE ChunkWords(Tail(words),
                              IF TextLen(currentChunk) > 0
                                THEN currentChunk \o <<" ">> \o word
                                ELSE word,
                              maxChunkSize)

\* OpenAIService.ChunkText
ChunkText(text, maxChunkSize) ==
  ChunkWords(Fields(text), <<>>,
             IF maxChunkSize <= 0 THEN DefaultChunkSize ELSE maxChunkSize)

\* the longest text and the largest small chunk size of a ChunkText call
MaxTextLen == 5
MaxChunkSize == 12

\* the characters of a text: two letters (the second one of five bytes), a
\* long word and the two kinds of whitespace
ChunkTokens == {"a", "error", LongWord, " ", "\n"}
ChunkTexts == UNION {[1..n -> ChunkTokens] : n \in 0..MaxTextLen}

\* the sizes passed: none (negative or zero), small ones, and sizes around
\* the long word and around the default
ChunkSizes == ((0 - 1)..MaxChunkSize) \cup {TokenLen(LongWord), DefaultChunkSize + 1}

\* a caller of ChunkText holding its arguments
ChunkCalls(texts, sizes) ==
  [text : texts, maxChunkSize : sizes, called : {FALSE}, chunks : {<<>>}]

\* the call itself
CallChunkText ==
  /\ ~chunkCall.called
  /\ chunkCall' = [chunkCall EXCEPT
        !.called = TRUE,
        !.chunks = ChunkText(chunkCall.text, chunkCall.maxChunkSize)]
  /\ UNCHANGED <<storeVars, aiVars, procVars, knowledgeVars, helperCall, documents,
                 uploads, deleteCall, assistantVars, statVars, compare>>

(* --------------------------- knowledge entries ------------------------ *)
\* the body of a call that carries none
NoEntry == [title |-> <<>>, content |-> <<>>, summary |-> <<>>, published |-> FALSE,
            priority |-> 0, viewCount |-> 0]

\* A knowledge_entries row; kEntries maps the ids in use to their rows.
\* deleted stands for a non-null deleted_at: every query leaves such rows out.
EntryRow(entry) ==
  [title |-> entry.title, content |-> entry.content, summary |-> entry.summary,
   published |-> entry.published, priority |-> entry.priority,
   viewCount |-> entry.viewCount, deleted |-> FALSE]

LiveEntries == {id \in DOMAIN kEntries : ~kEntries[id].deleted}
\* the vector_embeddings rows a query sees for an entry
LiveEmbeddings(embeddings, id) ==
  {i \in 1..Len(embeddings) : embeddings[i].entry = id /\ ~embeddings[i].deleted}

\* createEmbeddings: fullText := Title + "\n\n" + Content, with
\* Summary + "\n\n" in front when the summary is not empty
FullText(entry) ==
  LET fullText == entry.title \o <<"\n", "\n">> \o entry.content
  IN IF entry.summary # <<>> THEN entry.summary \o <<"\n", "\n">> \o fullText
                             ELSE fullText

\* Where a write can fail: the entry write, the delete of the old rows, for
\* chunk number chunk the embedding call, the vector store call or the row
\* insert, and the commit.
NoFailure == [step |-> "none", chunk |-> 0]
Failures(maxChunks) ==
  {NoFailure}
    \cup [step : {"entry", "delete", "commit"}, chunk : {0}]
    \cup [step : {"embed", "store", "row"}, chunk : 1..maxChunks]

RECURSIVE EmbedChunks(_, _, _, _, _)
\* the loop of createEmbeddings from chunk i on: CreateEmbedding, Store, then
\* the insert of the row; the first error ends it.  st holds the rows of the
\* transaction, the points of the vector index and the error.
EmbedChunks(i, chunks, st, id, fail) ==
  IF i > Len(chunks) THEN st
  ELSE IF fail.chunk = i /\ fail.step \in {"embed", "store"}
    THEN [st EXCEPT !.err = TRUE]
  ELSE LET stored == Append(st.vectors, [entry |-> id, text |-> chunks[i]])
           row == [entry |-> id, vectorID |-> Len(stored), chunkIndex |-> i - 1,
                   chunkText |-> chunks[i], deleted |-> FALSE]
       IN IF fail.chunk = i /\ fail.step = "row"
            THEN [st EXCEPT !.vectors = stored, !.err = TRUE]
            ELSE EmbedChunks(i + 1, chunks,
                             [st EXCEPT !.vectors = stored,
                                        !.embeddings = Append(st.embeddings, row)],
                             id, fail)

createEmbeddings(embeddings, points, id, entry, fail) ==
  EmbedChunks(1, ChunkText(FullText(entry), EmbeddingChunkSize),
              [embeddings |-> embeddings, vectors |-> points, err |-> FALSE],
              id, fail)

\* an update that leaves the rows of the earlier content in place
KeepEmbeddings(embeddings, id) == embeddings

\* tx.Where("knowledge_entry_id = ?", id).Delete(&models.VectorEmbedding{})
DeleteEmbeddings(embeddings, id) ==
  [i \in 1..Len(embeddings) |->
     IF embeddings[i].entry = id THEN [embeddings[i] EXCEPT !.deleted = TRUE]
                                 ELSE embeddings[i]]

\* the tables as a transaction leaves them
Tables(entries, embeddings) == [entries |-> entries, embeddings |-> embeddings]
Commit(before, after) == after
\* a transaction that keeps its writes when it is rolled back
RollbackKeepingWrites(before, after) == after
Rollback(before, after) == before

\* the end of a write: what it leaves in the tables and in the vector index,
\* and its outcome
EndWrite(op, id, entry, fail, tables, points, ok) ==
  /\ kEntries' = tables.entries
  /\ kEmbeddings' = tables.embeddings
  /\ vectors' = points
  /\ kCalls' = kCalls + 1
  /\ kCall' = [op |-> op, id |-> id, entry |-> entry, fail |-> fail, ok |-> ok]
  /\ UNCHANGED <<storeVars, aiVars, procVars, auxVars, searchCall>>

\* a fresh id (uuid), never given to an entry before, rolled back or not
NewEntryID ==
  LET used == DOMAIN kEntries \cup {vectors[i].entry : i \in 1..Len(vectors)}
  IN IF used = {} THEN 1 ELSE 1 + CHOOSE m \in used : \A n \in used : n <= m

NoEmbeddingWork == [embeddings |-> kEmbeddings, vectors |-> vectors, err |-> FALSE]

\* the bodies the knowledge handlers pass on
MaxChunks == 3
EntryInputs ==
  [title : {<<"refund">>}, content : {<<"payment">>, <<LongWord, " ", LongWord>>},
   summary : {<<>>, <<LongWord>>}, published : BOOLEAN,
   priority : {0}, viewCount : {0}]

CreateKnowledgeEntry(entry, fail) ==
  /\ kCalls < MaxKnowledgeCalls
  /\ LET id == NewEntryID
         created == [i \in DOMAIN kEntries \cup {id} |->
                       IF i = id THEN EntryRow(entry) ELSE kEntries[i]]
         st == IF fail.step # "entry" /\ entry.published
                 THEN createEmbeddings(kEmbeddings, vectors, id, entry, fail)
                 ELSE NoEmbeddingWork
         ok == fail.step \notin {"entry", "commit"} /\ ~st.err
         before == Tables(kEntries, kEmbeddings)
         after == Tables(created, st.embeddings)
     IN EndWrite("create", id, entry, fail,
                 IF ok THEN Commit(before, after) ELSE Rollback(before, after),
                 st.vectors, ok)

\* tx.Save writes every field of the body over the row with the path's id.
\* The ids are those of the live rows, the ones the read endpoints show.
UpdateKnowledgeEntry(id, entry, fail) ==
  /\ kCalls < MaxKnowledgeCalls
  /\ id \in LiveEntries
  /\ LET saved == [kEntries EXCEPT ![id] = EntryRow(entry)]
         st == IF fail.step \notin {"entry", "delete"} /\ entry.published
                 THEN createEmbeddings(DeleteEmbeddings(kEmbeddings, id), vectors,
                                       id, entry, fail)
                 ELSE NoEmbeddingWork
         ok == /\ fail.step \notin {"entry", "commit"}
               /\ ~(entry.published /\ fail.step = "delete")
               /\ ~st.err
         before == Tables(kEntries, kEmbeddings)
         after == Tables(saved, st.embeddings)
     IN EndWrite("update", id, entry, fail,
                 IF ok THEN Commit(before, after) ELSE Rollback(before, after),
                 st.vectors, ok)

\* DeleteKnowledgeEntry: the rows of the entry first, then the entry
DeleteKnowledgeEntry(id, fail) ==
  /\ kCalls < MaxKnowledgeCalls
  /\ id \in LiveEntries
  /\ fail.step \in {"none", "delete", "entry", "commit"}
  /\ LET ok == fail.step = "none"
         before == Tables(kEntries, kEmbeddings)
         after == Tables([kEntries EXCEPT ![id].deleted = TRUE],
                         DeleteEmbeddings(kEmbeddings, id))
     IN EndWrite("delete", id, NoEntry, fail,
                 IF ok THEN Commit(before, after) ELSE Rollback(before, after),
                 vectors, ok)

(* ------------------------------- search ------------------------------- *)
\* the bytes of a token
Chars(token) ==
  CASE token = "payment" -> <<"p", "a", "y", "m", "e", "n", "t">>
    [] token = "PAYMENT" -> <<"P", "A", "Y", "M", "E", "N", "T">>
    [] token = "error" -> <<"e", "r", "r", "o", "r">>
    [] token = "refund" -> <<"r", "e", "f", "u", "n", "d">>
    [] token = LongWord -> [i \in 1..600 |-> "w"]
    [] OTHER -> <<token>>

RECURSIVE String(_)
\* a text as the string of its bytes
String(text) == IF text = <<>> THEN <<>> ELSE Chars(Head(text)) \o String(Tail(text))

\* case folding, as ILIKE compares
ToLower(c) ==
  CASE c = "P" -> "p" [] c = "A" -> "a" [] c = "Y" -> "y" [] c = "M" -> "m"
    [] c = "E" -> "e" [] c = "N" -> "n" [] c = "T" -> "t" [] OTHER -> c

RECURSIVE Like(_, _, _, _)
\* string ILIKE pattern, from position i of the pattern and j of the string:
\* % stands for any run of bytes, _ for any one byte, every other byte for
\* itself in either case
Like(pattern, i, str, j) ==
  IF i > Len(pattern) THEN j > Len(str)
  ELSE IF pattern[i] = "%"
    THEN \E k \in j..(Len(str) + 1) : Like(pattern, i + 1, str, k)
  ELSE /\ j <= Len(str)
       /\ pattern[i] = "_" \/ ToLower(pattern[i]) = ToLower(str[j])
       /\ Like(pattern, i + 1, str, j + 1)
ILike(text, pattern) == Like(pattern, 1, String(text), 1)

\* searchTerm := "%" + query + "%"
SearchTerm(query) == <<"%">> \o String(query) \o <<"%">>

\* is_published = true AND (title ILIKE ? OR content ILIKE ? OR summary ILIKE ?)
TextMatches(entries, query) ==
  {id \in DOMAIN entries :
     /\ ~entries[id].deleted
     /\ entries[id].published
     /\ \/ ILike(entries[id].title, SearchTerm(query))
        \/ ILike(entries[id].content, SearchTerm(query))
        \/ ILike(entries[id].summary, SearchTerm(query))}

\* ORDER BY view_count DESC
PrecedesByViews(a, b) == a.viewCount >= b.viewCount
\* ORDER BY priority DESC, view_count DESC
Precedes(a, b) ==
  \/ a.priority > b.priority
  \/ a.priority = b.priority /\ a.viewCount >= b.viewCount

RECURSIVE Orderings(_, _, _)
\* the orders in which the database may return the rows ids: with ORDER BY
\* every order that follows Precedes, rows that tie coming in any order;
\* without it any order
Orderings(entries, ids, orderBy) ==
  IF ids = {} THEN {<<>>}
  ELSE UNION {{<<first>> \o rest : rest \in Orderings(entries, ids \ {first}, orderBy)} :
                first \in {id \in ids :
                             orderBy => \A other \in ids :
                                          Precedes(entries[id], entries[other])}}

\* a lookup that does not ask for is_published
AnyAmong(entries, entryIDs) ==
  {id \in DOMAIN entries : ~entries[id].deleted /\ id \in Range(entryIDs)}
\* Where("id IN ? AND is_published = true", entryIDs)
PublishedAmong(entries, entryIDs) ==
  {id \in DOMAIN entries :
     ~entries[id].deleted /\ entries[id].published /\ id \in Range(entryIDs)}

\* VectorService.Search: not implemented, every call returns an error
VectorSearchFails == [err |-> TRUE, ids |-> <<>>]

\* how a Find with Preload ends: without error, with an error of the main
\* query (no rows), or with an error of a Preload (the rows and the error)
FindOutcomes == {"ok", "failed", "preloadFailed"}

\* SearchKnowledgeEntries for a query and a limit.  vector is what
\* vectorService.Search returned, vectorFind and textFind how the query of
\* each path ends; a failed query of the vector path falls through to the
\* text path.
SearchKnowledgeEntries(query, limit, vector, vectorFind, textFind) ==
  /\ LET viaVector == ~vector.err /\ Len(vector.ids) > 0 /\ vectorFind = "ok"
         found == IF viaVector
                    THEN Orderings(kEntries, PublishedAmong(kEntries, vector.ids), FALSE)
                    ELSE {Take(o, limit) :
                            o \in Orderings(kEntries, TextMatches(kEntries, query),
                                            TRUE)}
     IN \E entries \in found :
          searchCall' = [query |-> query, limit |-> limit,
                         vector |-> vector,
                         path |-> IF viaVector THEN "vector" ELSE "text",
                         entries |-> IF ~viaVector /\ textFind = "failed"
                                       THEN <<>> ELSE entries,
                         err |-> ~viaVector /\ textFind # "ok"]
  /\ UNCHANGED <<storeVars, aiVars, procVars, auxVars, kEntries, kEmbeddings, vectors,
                 kCall, kCalls>>


InitProcs ==
  /\ pc = [p \in Procs |-> "idle"]
  /\ callNo = [p \in Procs |-> 0]
  /\ req = [p \in Procs |-> NoRequest]
  /\ session = [p \in Procs |-> NoSession]
  /\ userMessage = [p \in Procs |-> 0]
  /\ knowledgeEntries = [p \in Procs |-> <<>>]
  /\ searchErr = [p \in Procs |-> FALSE]
  /\ recentMessages = [p \in Procs |-> <<>>]
  /\ snapLen = [p \in Procs |-> 0]
  /\ histErr = [p \in Procs |-> FALSE]
  /\ aiMessages = [p \in Procs |-> <<>>]
  /\ attempts = [p \in Procs |-> <<>>]
  /\ aiResponse = [p \in Procs |-> NoAIResponse]
  /\ response = [p \in Procs |-> NoResponse]
  /\ err = [p \in Procs |-> NoError]

InitStore ==
  /\ sessions = <<>>
  /\ messages = <<>>
  /\ msgCall = <<>>
  /\ calls = 0

\* no SetPrimaryProvider call yet
NoSetPrimary == [provider |-> NoProvider, ok |-> FALSE]

\* the knowledge base is empty and no call has been made
NoKnowledgeCall ==
  [op |-> "", id |-> 0, entry |-> NoEntry, fail |-> NoFailure, ok |-> FALSE]
NoSearchCall ==
  [query |-> <<>>, limit |-> 0, vector |-> VectorSearchFails, path |-> "",
   entries |-> <<>>, err |-> FALSE]
NoHelperCall ==
  [op |-> "", content |-> <<>>, called |-> FALSE, reply |-> "", value |-> <<>>,
   err |-> FALSE]
NoDeleteCall == [svc |-> Enhanced, userID |-> "", sessionID |-> NoSession, err |-> ""]
\* no helper call, no upload, no DeleteChatSession call and no
\* ChatWithAssistant call has been made; the threads are empty
\* every handler at rest; a caller of ChunkText holds one of the given inputs
InitHandlers(chunkTexts, chunkSizes) ==
  /\ helperCall = NoHelperCall
  /\ documents = <<>>
  /\ uploads = <<>>
  /\ deleteCall = NoDeleteCall
  /\ threads = [t \in ThreadIDs |-> <<>>]
  /\ runs = <<>>
  /\ assistant = [c \in Callers |-> IdleCaller]
  /\ assistantCalls = 0
  /\ topicStats = <<>>
  /\ timeStats = <<>>
  /\ tracker = [h \in Procs |-> IdleTracker]
  /\ tracked = [b \in Buckets |-> 0]
  /\ trackCalls = 0
  /\ compare = NoCompare
  /\ chunkCall \in ChunkCalls(chunkTexts, chunkSizes)

InitAux == InitHandlers({<<>>}, {0})

InitKnowledge ==
  /\ kEntries = <<>>
  /\ kEmbeddings = <<>>
  /\ vectors = <<>>
  /\ kCall = NoKnowledgeCall
  /\ searchCall = NoSearchCall
  /\ kCalls = 0

\* NewServer: the OpenAI adapter always exists, the Gemini adapter may have
\* failed to initialise; the primary provider comes from the configuration
\* and the fallback is derived from it.
InitAI(primaries, geminiStates) ==
  /\ openAIService = TRUE
  /\ geminiService \in geminiStates
  /\ primaryProvider \in primaries
  /\ fallbackProvider = NewFallbackProvider(primaryProvider)
  /\ setPrimary = NoSetPrimary

(* Spec: the chat core.  Calls of both chat services, by two users, with    *)
(* every kind of session id, every store and provider failure, and session *)
(* deletion, one call at a time, under the default provider configuration  *)
(* (primary openai, both adapters present).                                *)
Init ==
  InitStore /\ InitAI({OpenAIProvider}, {TRUE}) /\ InitProcs /\ InitKnowledge /\ InitAux

Next ==
  \/ \E r \in Requests({Enhanced, Legacy}, Texts, Users, SessionIDs, {NoProvider}),
         lookupOK \in BOOLEAN, dbOK \in BOOLEAN :
        getOrCreateSession(1, r, lookupOK, dbOK)
  \/ \E p \in Procs, dbOK \in BOOLEAN : SaveUserMessage(p, dbOK)
  \/ \E p \in Procs, res \in SearchResults, dbOK \in BOOLEAN : AssembleHistory(p, res, dbOK)
  \/ \E p \in Procs, ok1 \in BOOLEAN, ok2 \in BOOLEAN : ChatCompletion(p, ok1, ok2)
  \/ \E p \in Procs, ok \in BOOLEAN : LegacyCompletion(p, ok)
  \/ \E p \in Procs, dbOK \in BOOLEAN : SaveAssistantMessage(p, dbOK)
  \/ \E s \in 1..Len(sessions) : DeleteChatSession(Enhanced, sessions[s].user, s, TRUE)

Spec == Init /\ [][Next]_vars

(* SpecAI: the orchestrator.  Enhanced calls of one user with every        *)
(* preferred provider, under every provider configuration and every       *)
(* change of the primary provider; the store never fails.                  *)
InitAny ==
  InitStore /\ InitAI(Providers, BOOLEAN) /\ InitProcs /\ InitKnowledge /\ InitAux

NextAI ==
  \/ \E r \in Requests({Enhanced}, {"a"}, {"u1"}, {NoSession},
                        {NoProvider, OtherProvider} \cup Providers) :
        getOrCreateSession(1, r, TRUE, TRUE)
  \/ \E p \in Procs : SaveUserMessage(p, TRUE)
  \/ \E p \in Procs, res \in SearchResults : AssembleHistory(p, res, TRUE)
  \/ \E p \in Procs, ok1 \in BOOLEAN, ok2 \in BOOLEAN : ChatCompletion(p, ok1, ok2)
  \/ \E p \in Procs : SaveAssistantMessage(p, TRUE)
  \/ \E provider \in Providers \cup {OtherProvider} : SetPrimaryProvider(provider)

SpecAI == InitAny /\ [][NextAI]_vars

(* SpecCompare: the provider comparison.  CompareProviders for one user   *)
(* with every provider list of up to MaxCompared names, under every        *)
(* provider configuration; ProcessChat runs with every provider outcome    *)
(* and every outcome of the creation of the session.                       *)
NextCompare ==
  \/ \E providers \in ProviderLists(MaxCompared) : CompareProviders("a", "u1", providers)
  \/ \E p \in Procs, dbOK \in BOOLEAN : CompareCall(p, dbOK)
  \/ \E p \in Procs : SaveUserMessage(p, TRUE)
  \/ \E p \in Procs, res \in SearchResults : AssembleHistory(p, res, TRUE)
  \/ \E p \in Procs, ok1 \in BOOLEAN, ok2 \in BOOLEAN : ChatCompletion(p, ok1, ok2)
  \/ \E p \in Procs : SaveAssistantMessage(p, TRUE)
  \/ \E p \in Procs : CompareRecord(p)

SpecCompare == InitAny /\ [][NextCompare]_vars

(* SpecChunks: the chunking of a text.  One call of ChunkText for every  *)
(* text of up to MaxTextLen characters and every size of ChunkSizes.       *)
InitChunks ==
  /\ InitStore /\ InitAI({OpenAIProvider}, {TRUE}) /\ InitProcs /\ InitKnowledge
  /\ InitHandlers(ChunkTexts, ChunkSizes)

NextChunks == CallChunkText

SpecChunks == InitChunks /\ [][NextChunks]_vars

(* SpecWindow: the history window.  One session of one user that already  *)
(* holds 0..MaxPrior messages of earlier turns (user and assistant rows    *)
(* in turn; an odd count ends with the user row of a failed turn), then    *)
(* calls of both services in that session; only the history read fails.    *)
PriorRow(i) ==
  IF i % 2 = 1
    THEN UserMessageRow(1, "a")
    ELSE AssistantMessageRow(Enhanced, 1,
           UnifiedResponse(OpenAIProvider, OpenAIProvider, <<>>))

InitWindow ==
  /\ sessions = <<NewSession("u1")>>
  /\ \E n \in 0..MaxPrior :
        /\ messages = [i \in 1..n |-> PriorRow(i)]
        /\ msgCall = [i \in 1..n |-> 0]
  /\ calls = 0
  /\ InitAI({OpenAIProvider}, {TRUE})
  /\ InitProcs
  /\ InitKnowledge
  /\ InitAux

NextWindow ==
  \/ \E r \in Requests({Enhanced, Legacy}, {"a"}, {"u1"}, {1}, {NoProvider}) :
        getOrCreateSession(1, r, TRUE, TRUE)
  \/ \E p \in Procs : SaveUserMessage(p, TRUE)
  \/ \E p \in Procs, dbOK \in BOOLEAN :
        AssembleHistory(p, [err |-> FALSE, entries |-> <<>>], dbOK)
  \/ \E p \in Procs, ok1 \in BOOLEAN, ok2 \in BOOLEAN : ChatCompletion(p, ok1, ok2)
  \/ \E p \in Procs, ok \in BOOLEAN : LegacyCompletion(p, ok)
  \/ \E p \in Procs : SaveAssistantMessage(p, TRUE)

SpecWindow == InitWindow /\ [][NextWindow]_vars

(* SpecSessions: chat calls and session deletion.  Calls of both services   *)
(* by two users with every kind of session id, and DeleteChatSession of    *)
(* both services by either user on any id, whether the library runs the    *)
(* statement or rejects it.                                                *)
NextSessions ==
  \/ \E r \in Requests({Enhanced, Legacy}, {"a"}, Users, SessionIDs, {NoProvider}),
         dbOK \in BOOLEAN :
        getOrCreateSession(1, r, TRUE, dbOK)
  \/ \E p \in Procs, dbOK \in BOOLEAN : SaveUserMessage(p, dbOK)
  \/ \E p \in Procs : AssembleHistory(p, [err |-> FALSE, entries |-> <<>>], TRUE)
  \/ \E p \in Procs, ok1 \in BOOLEAN, ok2 \in BOOLEAN : ChatCompletion(p, ok1, ok2)
  \/ \E p \in Procs, ok \in BOOLEAN : LegacyCompletion(p, ok)
  \/ \E p \in Procs, dbOK \in BOOLEAN : SaveAssistantMessage(p, dbOK)
  \/ \E svc \in {Enhanced, Legacy}, u \in Users, s \in SessionIDs \ {NoSession},
        executes \in BOOLEAN : DeleteChatSession(svc, u, s, executes)

SpecSessions == Init /\ [][NextSessions]_vars

(* SpecConcurrent: two handlers serving calls of one user at the same      *)
(* time, on a session that exists already, on an id that resolves to none  *)
(* or with no id, while the owner may delete the session; the store and    *)
(* the providers do not fail.                                              *)
InitConcurrent ==
  /\ sessions = <<NewSession("u1")>>
  /\ messages = <<>>
  /\ msgCall = <<>>
  /\ calls = 0
  /\ InitAI({OpenAIProvider}, {TRUE})
  /\ InitProcs
  /\ InitKnowledge
  /\ InitAux

NextConcurrent ==
  \/ \E p \in Procs, r \in Requests({Enhanced}, {"a"}, {"u1"}, {1, UnknownSession},
                                      {NoProvider}) :
        getOrCreateSession(p, r, TRUE, TRUE)
  \/ \E p \in Procs : SaveUserMessage(p, TRUE)
  \/ \E p \in Procs : AssembleHistory(p, [err |-> FALSE, entries |-> <<>>], TRUE)
  \/ \E p \in Procs : ChatCompletion(p, TRUE, FALSE)
  \/ \E p \in Procs : SaveAssistantMessage(p, TRUE)
  \/ \E executes \in BOOLEAN : DeleteChatSession(Enhanced, "u1", 1, executes)

SpecConcurrent == InitConcurrent /\ [][NextConcurrent]_vars

\* The tracking logic of the chat handlers, run by the handlers at the same
\* time for requests of two time buckets.
NextTracking ==
  \/ \E h \in Procs, topicID \in Buckets : StartTracking(h, topicID)
  \/ \E h \in Procs : ReadTopicStat(h, TRUE)
  \/ \E h \in Procs : WriteTopicStat(h)
  \/ \E h \in Procs : ReadTimeStat(h, TRUE)
  \/ \E h \in Procs : WriteTimeStat(h)

SpecTracking == Init /\ [][NextTracking]_vars

\* The knowledge base under its three writes, from an empty base.
InitKnowledgeBase ==
  /\ InitStore
  /\ InitAI({OpenAIProvider}, {TRUE})
  /\ InitProcs
  /\ InitKnowledge
  /\ InitAux

NextKnowledge ==
  \/ \E entry \in EntryInputs, fail \in Failures(MaxChunks) :
        CreateKnowledgeEntry(entry, fail)
  \/ \E id \in LiveEntries, entry \in EntryInputs, fail \in Failures(MaxChunks) :
        UpdateKnowledgeEntry(id, entry, fail)
  \/ \E id \in LiveEntries, fail \in Failures(MaxChunks) :
        DeleteKnowledgeEntry(id, fail)

SpecKnowledge == InitKnowledgeBase /\ [][NextKnowledge]_vars

\* Searches over a knowledge base filled by CreateKnowledgeEntry.
SearchSeeds ==
  {[title |-> <<"payment", " ", "error">>, content |-> <<>>, summary |-> <<>>,
    published |-> TRUE, priority |-> 2, viewCount |-> 0],
   [title |-> <<"refund">>, content |-> <<"PAYMENT", " ", "error">>, summary |-> <<>>,
    published |-> TRUE, priority |-> 1, viewCount |-> 3],
   [title |-> <<"payment">>, content |-> <<>>, summary |-> <<"error">>,
    published |-> TRUE, priority |-> 2, viewCount |-> 0],
   [title |-> <<"payment", " ", "error">>, content |-> <<>>, summary |-> <<>>,
    published |-> FALSE, priority |-> 3, viewCount |-> 0],
   [title |-> <<"a">>, content |-> <<>>, summary |-> <<>>,
    published |-> TRUE, priority |-> 1, viewCount |-> 5]}
Queries ==
  {<<"payment", " ", "error">>, <<"PAYMENT">>, <<"error">>, <<"_">>, <<"pay", "%", "error">>}
Limits == {1, 5}

\* what vectorService.Search answers: in this build an error on every call;
\* for an implementation of it, also no result or the ids of some entries
VectorOutcomes ==
  {VectorSearchFails}
    \cup {[err |-> FALSE, ids |-> ids] : ids \in {<<>>, <<1>>, <<2, 1>>, <<3, 2>>}}

Seed == \E entry \in SearchSeeds : CreateKnowledgeEntry(entry, NoFailure)

NextSearch ==
  \/ Seed
  \/ \E query \in Queries, limit \in Limits, textFind \in FindOutcomes :
        SearchKnowledgeEntries(query, limit, VectorSearchFails, "ok", textFind)

SpecSearch == InitKnowledgeBase /\ [][NextSearch]_vars

NextVectorSearch ==
  \/ Seed
  \/ \E vector \in VectorOutcomes, vectorFind \in FindOutcomes,
        textFind \in FindOutcomes :
        SearchKnowledgeEntries(<<"payment", " ", "error">>, 5, vector, vectorFind, textFind)

SpecVectorSearch == InitKnowledgeBase /\ [][NextVectorSearch]_vars

\* The title, summary and keyword helpers of the orchestrator, with and
\* without the Gemini adapter.
Contents ==
  {[i \in 1..n |-> c] : n \in {0, TitleLimit, TitleLimit + 1, SummaryLimit, SummaryLimit + 1},
                         c \in {"c", "e2"}}

NextHelpers ==
  \/ \E content \in Contents, reply \in GeminiReplies : GenerateTitle(content, reply)
  \/ \E content \in Contents, reply \in GeminiReplies : SummarizeContent(content, reply)
  \/ \E content \in Contents, reply \in GeminiReplies : ExtractKeywords(content, reply)

SpecHelpers == InitAny /\ [][NextHelpers]_vars

\* Uploads of documents and their background tasks.
NextUpload ==
  \/ \E fileOK \in BOOLEAN, dbOK \in BOOLEAN : UploadDocument(fileOK, dbOK)
  \/ \E d \in 1..MaxDocuments, ok \in BOOLEAN, dbOK \in BOOLEAN : UploadToOpenAI(d, ok, dbOK)
  \/ \E d \in 1..MaxDocuments, ok \in BOOLEAN, dbOK \in BOOLEAN : AddToVectorStore(d, ok, dbOK)

SpecUpload == InitKnowledgeBase /\ [][NextUpload]_vars

\* the steps of the background tasks: every external call returns and a
\* task that can take its next step takes it
TaskStep ==
  \/ \E d \in 1..MaxDocuments, ok \in BOOLEAN, dbOK \in BOOLEAN : UploadToOpenAI(d, ok, dbOK)
  \/ \E d \in 1..MaxDocuments, ok \in BOOLEAN, dbOK \in BOOLEAN : AddToVectorStore(d, ok, dbOK)

\* uploads whose background tasks are scheduled fairly
SpecUploadFair == SpecUpload /\ WF_vars(TaskStep)

\* ChatWithAssistant calls of two callers on the thread of the service and
\* on another thread, with every failure of the API, while the runs post
\* their messages and end.
AssistantRequests == [message : {"hello"}, threadID : {NoThread, "thread-a"}]

NextAssistant ==
  \/ \E c \in Callers, r \in AssistantRequests, ok \in BOOLEAN : addMessageToThread(c, r, ok)
  \/ \E c \in Callers, ok \in BOOLEAN : createRun(c, ok)
  \/ \E r \in 1..MaxAssistantCalls : RunPosts(r)
  \/ \E r \in 1..MaxAssistantCalls, status \in {"completed", "failed"} : RunEnds(r, status)
  \/ \E c \in Callers, outcome \in WaitOutcomes : WaitForRunCompletion(c, outcome)
  \/ \E c \in Callers, ok \in BOOLEAN : getMessagesWithRunID(c, ok)

SpecAssistant == Init /\ [][NextAssistant]_vars

(* ------------------------------- claims ------------------------------- *)
\* the rows a call has written, by the number of the call
RowsOf(call) == {i \in 1..Len(messages) : msgCall[i] = call}
\* a call that has started and whose locals are still in place
Started(p) == callNo[p] # 0
Succeeded(p) == pc[p] = "done" /\ response[p].ok
LastAttempt(p) == attempts[p][Len(attempts[p])]

\* Every step leaves the rows already stored as they are and adds at most one.
AppendOnly ==
  /\ Len(messages') \in {Len(messages), Len(messages) + 1}
  /\ \A i \in 1..Len(messages) : messages'[i] = messages[i] /\ msgCall'[i] = msgCall[i]

\* A successful call has written exactly two rows: a user row with the
\* request text and, after it, an assistant row with the reply of the provider
\* that answered, both in the session the response names.
TwoRowsOfSuccess ==
  \A p \in Procs : Succeeded(p) =>
    /\ Cardinality(RowsOf(callNo[p])) = 2
    /\ \E u, a \in RowsOf(callNo[p]) :
         /\ u < a
         /\ messages[u].role = "user"
         /\ messages[u].content = req[p].message
         /\ messages[u].session = response[p].sessionID
         /\ messages[a].role = "assistant"
         /\ LastAttempt(p).ok
         /\ messages[a].content = ReplyOf(LastAttempt(p).provider)
         /\ messages[a].content = response[p].message
         /\ messages[a].session = response[p].sessionID

\* C1: every successful ProcessChat call adds exactly two messages, one user
\* message with the request text and one assistant message with the provider
\* reply, both bound to the session returned in the response, and no step
\* creates another message or changes a stored one.
C1_ExactlyTwoMessages == []TwoRowsOfSuccess /\ [][AppendOnly]_vars

\* C1 witness: a second call has succeeded in the session of the first, so
\* that the store holds the two rows of each.
C1_Witness ==
  \E p \in Procs : /\ Succeeded(p)
                    /\ callNo[p] = 2
                    /\ req[p].sessionID = response[p].sessionID
                    /\ Len(messages) = 4

\* the supplied id names a session the store holds for the user, still active
OwnedAndActive(userID, sessionID) ==
  /\ sessionID \in 1..Len(sessions)
  /\ sessions[sessionID].user = userID
  /\ sessions[sessionID].active

\* the step that starts call number calls + 1 in handler p
StartsCall(p) == calls' = calls + 1 /\ callNo'[p] = calls'

\* A call started with an id that does not resolve creates a session; the
\* only error it can end with at this step is that of the failed INSERT.
UnresolvedIdCreates ==
  \A p \in Procs :
    (/\ StartsCall(p)
     /\ req'[p].sessionID # NoSession
     /\ ~OwnedAndActive(req'[p].userID, req'[p].sessionID))
    => \/ /\ err'[p] = NoError
          /\ sessions' = Append(sessions, NewSession(req'[p].userID))
          /\ sessions'[Len(sessions')].title = "New Chat"
          /\ sessions'[Len(sessions')].active
          /\ sessions'[Len(sessions')].user = req'[p].userID
          /\ session'[p] = Len(sessions')
          /\ session'[p] # req'[p].sessionID
          /\ pc'[p] = "saveUser"
       \/ /\ err'[p].kind = "create session failed"
          /\ sessions' = sessions
          /\ pc'[p] = "done"

\* The rows of a call and its response carry the session the call resolved.
BoundToResolvedSession ==
  \A p \in Procs : Started(p) =>
    /\ \A i \in RowsOf(callNo[p]) : messages[i].session = session[p]
    /\ session[p] # NoSession =>
          /\ session[p] \in 1..Len(sessions)
          /\ sessions[session[p]].user = req[p].userID
    /\ Succeeded(p) => response[p].sessionID = session[p]

\* C2: ProcessChat called with a session_id that does not resolve to an
\* active session of the requesting user (unknown id, another user's session,
\* a deactivated session) is not refused for it: it creates a session owned
\* by the caller, titled "New Chat" and active, binds the messages of the turn
\* to it and returns its id, which differs from the supplied one.  The only
\* error of that step is the failed INSERT of the new session.
C2_UnresolvedIdYieldsNewSession ==
  [][UnresolvedIdCreates]_vars /\ []BoundToResolvedSession

\* C2 witness: a call that named another user's session, or a deactivated
\* one of its own, has succeeded in a session with a different id.
C2_Witness ==
  \E p \in Procs :
    /\ Succeeded(p)
    /\ req[p].sessionID \in 1..Len(sessions)
    /\ sessions[req[p].sessionID].user # req[p].userID
    /\ response[p].sessionID # req[p].sessionID
    /\ sessions[response[p].sessionID] = NewSession(req[p].userID)
    /\ \A i \in RowsOf(callNo[p]) : messages[i].session = response[p].sessionID

BothAttemptsFailed(p) ==
  /\ Len(attempts[p]) = 2
  /\ ~attempts[p][1].ok
  /\ ~attempts[p][2].ok

\* C3: if both providers fail, ProcessChat returns an error, the call has
\* stored no assistant message, and the user message it stored in step 2 is
\* in the store.
C3_BothFailKeepsUserMessageOnly ==
  \A p \in Procs : BothAttemptsFailed(p) =>
    /\ pc[p] = "done"
    /\ ~response[p].ok
    /\ err[p] = BothFailed(attempts[p][1].provider, attempts[p][2].provider)
    /\ RowsOf(callNo[p]) = {userMessage[p]}
    /\ messages[userMessage[p]] = UserMessageRow(session[p], req[p].message)
    /\ \A i \in RowsOf(callNo[p]) : messages[i].role # "assistant"

\* C3 witness: a call whose two provider attempts both failed has returned.
C3_Witness ==
  \E p \in Procs : /\ BothAttemptsFailed(p)
                    /\ err[p].kind = "both AI providers failed"
                    /\ Len(messages) >= 1

\* the first attempt of a ChatCompletion call failed and the second succeeded
FallbackAnswered(p) ==
  /\ Len(attempts[p]) = 2
  /\ ~attempts[p][1].ok
  /\ attempts[p][2].ok

\* C4: whenever the first provider attempt of ChatCompletion fails and the
\* fallback attempt succeeds, the provider field of the response is the
\* identity of the fallback provider and not that of the provider attempted
\* first; a successful response names the provider that answered.
C4_FallbackNamedNotFirst ==
  \A p \in Procs :
    /\ FallbackAnswered(p) =>
          /\ aiResponse[p].provider = fallbackProvider
          /\ aiResponse[p].provider # attempts[p][1].provider
    /\ (attempts[p] # <<>> /\ LastAttempt(p).ok) =>
          aiResponse[p].provider = LastAttempt(p).provider

\* C4 witness: the fallback answered and the response carries the name of
\* the provider that was attempted first.
C4_Witness ==
  \E p \in Procs : /\ FallbackAnswered(p)
                    /\ aiResponse[p].provider = attempts[p][1].provider
                    /\ aiResponse[p].provider = fallbackProvider

\* the number of attempts of the call that reached an adapter
AdapterCalls(p) == Cardinality({k \in 1..Len(attempts[p]) : attempts[p][k].adapter})

\* C5 as stated: exactly one adapter call is made when the first attempt
\* succeeds, exactly two when it fails, and never more than two.
C5_TwoAdapterCalls ==
  \A p \in Procs : attempts[p] # <<>> =>
    /\ attempts[p][1].ok => AdapterCalls(p) = 1
    /\ ~attempts[p][1].ok => AdapterCalls(p) = 2
    /\ AdapterCalls(p) <= 2

\* C5: every ChatCompletion call makes exactly one provider attempt when the
\* first attempt succeeds and exactly two when it fails, never more; the
\* second attempt goes to the configured fallback and only after the first
\* has failed; an attempt makes one adapter call, or none, and then fails,
\* when the provider has no adapter (an unsupported name or a nil service).
C5_TwoShotPolicy ==
  \A p \in Procs : attempts[p] # <<>> =>
    /\ Len(attempts[p]) = IF attempts[p][1].ok THEN 1 ELSE 2
    /\ Len(attempts[p]) = 2 => attempts[p][2].provider = fallbackProvider
    /\ \A k \in 1..Len(attempts[p]) :
          /\ attempts[p][k].adapter = (attempts[p][k].provider \in GetAvailableProviders)
          /\ ~attempts[p][k].adapter => ~attempts[p][k].ok
    /\ AdapterCalls(p) <= Len(attempts[p])
    /\ (pc[p] = "done" /\ err[p].kind = "both AI providers failed") = BothAttemptsFailed(p)

\* C5 witness: a call whose first attempt failed without an adapter call and
\* whose fallback attempt reached its adapter and succeeded: two attempts,
\* one adapter call.
C5_Witness ==
  \E p \in Procs : /\ FallbackAnswered(p)
                    /\ ~attempts[p][1].adapter
                    /\ attempts[p][2].adapter
                    /\ AdapterCalls(p) = 1

\* C6: in every ChatCompletion call whose first attempt fails, the retry is
\* made against a provider different from the one of the first attempt,
\* whatever the preferred provider is.
C6_RetryOnOtherProvider ==
  \A p \in Procs : Len(attempts[p]) = 2 =>
    attempts[p][2].provider # attempts[p][1].provider

\* C6 witness: both attempts of a call went to the same provider, and both
\* reached its adapter.
C6_Witness ==
  \E p \in Procs : /\ Len(attempts[p]) = 2
                    /\ attempts[p][2].provider = attempts[p][1].provider
                    /\ attempts[p][1].adapter
                    /\ req[p].preferredProvider = fallbackProvider

\* the provider the first attempt is due to: the preferred one when supplied
\* and registered, the configured primary otherwise
DueFirst(preferredProvider) ==
  IF preferredProvider # NoProvider /\ preferredProvider \in GetAvailableProviders
    THEN preferredProvider
    ELSE primaryProvider

FirstAttemptDue ==
  \A p \in Procs :
    (attempts[p] = <<>> /\ attempts'[p] # <<>>) =>
      attempts'[p][1].provider = DueFirst(req[p].preferredProvider)

\* C7: ChatCompletion makes its first attempt against preferredProvider when
\* one is supplied and registered, and against the configured primary
\* provider when preferredProvider is empty or not registered.
C7_FirstAttemptSelection == [][FirstAttemptDue]_vars

\* C7 witness: a call preferred a provider that is not registered and its
\* first attempt went to that provider, not to the primary.
C7_Witness ==
  \E p \in Procs : /\ attempts[p] # <<>>
                    /\ req[p].preferredProvider # NoProvider
                    /\ req[p].preferredProvider \notin GetAvailableProviders
                    /\ attempts[p][1].provider = req[p].preferredProvider
                    /\ attempts[p][1].provider # primaryProvider

\* the history part of the message list built for the provider
History(p) == SubSeq(aiMessages[p], 1, Len(aiMessages[p]) - 1)
Built(p) == aiMessages[p] # <<>>

\* the rows of the call's session that the store held when the history was
\* read, and the HistoryLimit newest of them
SessionRowsAtRead(p) ==
  {i \in 1..snapLen[p] : messages[i].session = session[p]}
NewestAtRead(p) ==
  {i \in SessionRowsAtRead(p) :
     Cardinality({j \in SessionRowsAtRead(p) : j > i}) < HistoryLimit}

\* the rows read other than the row of the inbound message
Retained(p) == Range(recentMessages[p]) \ {userMessage[p]}

\* how often a text occurs in a message list, and in a set of rows, under a role
CopiesIn(list, role, text) ==
  Cardinality({k \in 1..Len(list) : list[k].role = role /\ list[k].content = text})
CopiesAmong(rows, role, text) ==
  Cardinality({i \in rows : messages[i].role = role /\ messages[i].content = text})

\* C8: history assembly drops the just-persisted inbound message by its
\* identity only, not by role or content: the history holds one entry for
\* every other row that was read, so that a text sent twice in a session
\* occurs in the history of the second request once per earlier user message
\* with that text, and once more as the appended current message.  (A failed
\* read of the history yields an empty history.)
C8_DropsByIdentityOnly ==
  \A p \in Procs : Built(p) =>
    /\ Len(History(p)) = Cardinality(Retained(p))
    /\ \A t \in Texts :
          CopiesIn(History(p), "user", t) = CopiesAmong(Retained(p), "user", t)
    /\ aiMessages[p][Len(aiMessages[p])] = UserTurn(req[p].message)
    /\ CopiesIn(aiMessages[p], "user", req[p].message)
          = CopiesAmong(Retained(p), "user", req[p].message) + 1
    /\ ~histErr[p] =>
          /\ userMessage[p] \in Range(recentMessages[p])
          /\ Retained(p) = NewestAtRead(p) \ {userMessage[p]}

\* C8 witness: the second request of a session repeats the text of the
\* first; its history holds that text once, the whole list twice.
C8_Witness ==
  \E p \in Procs :
    /\ Built(p) /\ ~histErr[p]
    /\ callNo[p] = 2
    /\ CopiesAmong(SessionRowsAtRead(p), "user", req[p].message) = 2
    /\ CopiesIn(History(p), "user", req[p].message) = 1
    /\ CopiesIn(aiMessages[p], "user", req[p].message) = 2

\* C9: whatever the number of messages the session holds, the message list
\* passed to the provider holds at most HistoryLimit history messages and
\* the current message, and the history messages are among the most recent
\* rows of the session (all of them but the inbound row, when the read
\* succeeds).
C9_BoundedRecentWindow ==
  \A p \in Procs : Built(p) =>
    /\ Len(History(p)) <= HistoryLimit
    /\ Len(aiMessages[p]) <= HistoryLimit + 1
    /\ Len(recentMessages[p]) <= HistoryLimit
    /\ Range(recentMessages[p]) \subseteq NewestAtRead(p)
    /\ Len(History(p)) = Cardinality(Retained(p))
    /\ \A k \in 1..Len(History(p)) :
          \E i \in Retained(p) : messages[i].content = History(p)[k].content
    /\ ~histErr[p] => Range(recentMessages[p]) = NewestAtRead(p)

\* C9 witness: a call in a session that held 11 messages or more before it:
\* the read returns HistoryLimit rows and leaves older rows out.
C9_Witness ==
  \E p \in Procs :
    /\ Built(p) /\ ~histErr[p]
    /\ Cardinality(SessionRowsAtRead(p)) >= HistoryLimit + 2
    /\ Len(recentMessages[p]) = HistoryLimit
    /\ Len(aiMessages[p]) = HistoryLimit
    /\ NewestAtRead(p) # SessionRowsAtRead(p)

\* the place of a retained row in chronological order
ChronologicalPlace(p, i) == Cardinality({j \in Retained(p) : j <= i})

\* C10: the message list ProcessChat hands on lists the retained history
\* messages oldest first and ends with the current user message.
C10_ChronologicalOrder ==
  \A p \in Procs : Built(p) =>
    /\ Len(aiMessages[p]) = Cardinality(Retained(p)) + 1
    /\ \A i \in Retained(p) :
          aiMessages[p][ChronologicalPlace(p, i)].content = messages[i].content
    /\ aiMessages[p][Len(aiMessages[p])] = UserTurn(req[p].message)

\* C10 witness: a call of EnhancedChatService whose list starts with the
\* newest retained row and holds the oldest one right before the current
\* message.
C10_Witness ==
  \E p \in Procs :
    /\ Built(p)
    /\ req[p].svc = Enhanced
    /\ Cardinality(Retained(p)) = 2
    /\ \E old, new \in Retained(p) :
          /\ old < new
          /\ messages[old].role = "user"
          /\ messages[new].role = "assistant"
          /\ aiMessages[p][1] = [role |-> "model", content |-> messages[new].content]
          /\ aiMessages[p][2] = [role |-> "user", content |-> messages[old].content]

\* the provider has an adapter in the orchestrator
Registered(provider) ==
  \/ provider = OpenAIProvider /\ openAIService
  \/ provider = GeminiProvider /\ geminiService

\* a step that is a SetPrimaryProvider call with a new argument or outcome
SetPrimaryCalled == setPrimary' # setPrimary

SetPrimaryOutcome ==
  SetPrimaryCalled =>
    /\ setPrimary'.ok = Registered(setPrimary'.provider)
    /\ setPrimary'.ok = (setPrimary'.provider \in GetAvailableProviders)
    /\ setPrimary'.ok => primaryProvider' = setPrimary'.provider
    /\ ~setPrimary'.ok => primaryProvider' = primaryProvider
    /\ fallbackProvider' = fallbackProvider

\* C20: SetPrimaryProvider(p) succeeds and makes p the primary provider if and
\* only if p is in the list GetAvailableProviders returns; for any other p it
\* returns an error and leaves the primary and the fallback provider unchanged.
C20_SetPrimaryOnlyAvailable ==
  [][SetPrimaryOutcome]_vars
    /\ [](~setPrimary.ok => setPrimary.provider \notin GetAvailableProviders)

\* C20 witness: setting a provider without adapter has been refused after an
\* earlier call changed the primary provider.
C20_Witness ==
  /\ ~setPrimary.ok
  /\ setPrimary.provider = GeminiProvider
  /\ ~geminiService
  /\ primaryProvider = OpenAIProvider
  /\ fallbackProvider = OpenAIProvider

\* the rows behind the history entries, in the order of the entries
KeptRows(p) ==
  SelectSeq(IF req[p].svc = Enhanced THEN recentMessages[p]
                                     ELSE Reverse(recentMessages[p]),
            LAMBDA id : id # userMessage[p])

\* the label a provider uses for its own turns
OwnTurnLabel(provider) == IF provider = GeminiProvider THEN "model" ELSE "assistant"

\* the attempts of the call that reached an adapter
AdapterAttempts(p) == {k \in 1..Len(attempts[p]) : attempts[p][k].adapter}

\* C11: for every history message stored with role assistant, the role label
\* delivered to the provider adapter that is called is the label that
\* provider expects for its own turns ("assistant" for OpenAI, "model" for
\* Gemini), whichever provider is selected and also on a fallback.
C11_RoleLabelPerProvider ==
  \A p \in Procs : \A k \in AdapterAttempts(p) :
    \A j \in 1..Len(KeptRows(p)) :
      messages[KeptRows(p)[j]].role = "assistant" =>
        AdapterRole(attempts[p][k].provider, aiMessages[p][j].role)
          = OwnTurnLabel(attempts[p][k].provider)

\* C11 witness: an EnhancedChatService call whose history holds an assistant
\* message has called the OpenAI adapter, which received it as "model".
C11_Witness ==
  \E p \in Procs : \E k \in AdapterAttempts(p) : \E j \in 1..Len(KeptRows(p)) :
    /\ req[p].svc = Enhanced
    /\ attempts[p][k].provider = OpenAIProvider
    /\ messages[KeptRows(p)[j]].role = "assistant"
    /\ AdapterRole(OpenAIProvider, aiMessages[p][j].role) = "model"

\* the knowledge search of the call has been made
Searched(p) == pc[p] \in {"dispatch", "saveAssistant"} \/ (pc[p] = "done" /\ Built(p))

\* C12: a failing knowledge search never fails the chat: when
\* SearchKnowledgeEntries returns an error, ProcessChat continues with an
\* empty context and useKnowledgeBase=false (the flag is true iff the context
\* is non-empty), and still persists both messages and returns the reply when
\* the provider call and the writes succeed.
C12_SearchFailureIsNotFatal ==
  \A p \in Procs : Searched(p) =>
    /\ aiRequest(p).useKnowledgeBase = (aiRequest(p).context # <<>>)
    /\ searchErr[p] =>
          /\ aiRequest(p).context = <<>>
          /\ ~aiRequest(p).useKnowledgeBase
          /\ err[p].kind \notin {"create session failed", "save user message failed"}
          /\ (pc[p] = "done" /\ err[p] = NoError) =>
                /\ Succeeded(p)
                /\ Cardinality(RowsOf(callNo[p])) = 2

\* C12 witness: an EnhancedChatService call whose search returned an error
\* has succeeded, and its request to the orchestrator carried a context and
\* useKnowledgeBase=true.
C12_Witness ==
  \E p \in Procs : /\ req[p].svc = Enhanced
                    /\ searchErr[p]
                    /\ Succeeded(p)
                    /\ aiRequest(p).useKnowledgeBase
                    /\ aiRequest(p).context # <<>>

\* the provider has replied to the call
ProviderReplied(p) == attempts[p] # <<>> /\ LastAttempt(p).ok

\* the assistant rows the call has stored
AssistantRowsOf(p) == {i \in RowsOf(callNo[p]) : messages[i].role = "assistant"}

\* C13: if persisting the assistant message fails after the provider has
\* replied, ProcessChat returns an error and no response carrying the reply;
\* no reply is returned as success unless its assistant message was persisted.
C13_NoReplyWithoutPersistedRow ==
  \A p \in Procs :
    /\ (pc[p] = "done" /\ ProviderReplied(p) /\ AssistantRowsOf(p) = {}) =>
          /\ err[p] = Error("save assistant message failed")
          /\ response[p] = NoResponse
    /\ (response[p].ok \/ response[p].message # "") =>
          /\ pc[p] = "done"
          /\ err[p] = NoError
          /\ \E i \in AssistantRowsOf(p) :
                /\ messages[i].content = response[p].message
                /\ messages[i].session = response[p].sessionID

\* C13 witness: the provider replied, the write of the assistant message
\* failed and the call has returned its error; the user message is stored.
C13_Witness ==
  \E p \in Procs : /\ pc[p] = "done"
                    /\ ProviderReplied(p)
                    /\ aiResponse[p].message # ""
                    /\ AssistantRowsOf(p) = {}
                    /\ RowsOf(callNo[p]) = {userMessage[p]}
                    /\ err[p].kind = "save assistant message failed"

\* the last knowledge write, when it returned no error
Wrote(ops) == kCall.ok /\ kCall.op \in ops
\* the chunks of the body of the last knowledge write
ChunksOfCall == ChunkText(FullText(kCall.entry), EmbeddingChunkSize)
\* the VectorEmbedding rows of the entry of the last knowledge write
RowsOfCall == LiveEmbeddings(kEmbeddings, kCall.id)

\* C14: after a successful CreateKnowledgeEntry or UpdateKnowledgeEntry of a
\* published entry, the entry has exactly one VectorEmbedding row per chunk
\* that ChunkText makes of its summary, title and content, with the chunk
\* indexes 0..n-1 and the texts of those chunks, and no row of earlier content.
C14_RowsAreChunksOfCurrentText ==
  (Wrote({"create", "update"}) /\ kCall.entry.published) =>
     /\ Cardinality(RowsOfCall) = Len(ChunksOfCall)
     /\ \A k \in 1..Len(ChunksOfCall) :
          \E i \in RowsOfCall : /\ kEmbeddings[i].chunkIndex = k - 1
                                /\ kEmbeddings[i].chunkText = ChunksOfCall[k]

\* a published entry with rows has been updated to a text of several chunks
C14_Witness ==
  /\ Wrote({"update"}) /\ kCall.entry.published
  /\ Len(ChunksOfCall) >= 2
  /\ \E i \in 1..Len(kEmbeddings) :
        kEmbeddings[i].entry = kCall.id /\ kEmbeddings[i].deleted

\* the entries a search for published entries leaves out
Unpublished == {id \in DOMAIN kEntries : ~kEntries[id].published \/ kEntries[id].deleted}
Deleted == {id \in DOMAIN kEntries : kEntries[id].deleted}
NoRowsOf(ids) == \A id \in ids : LiveEmbeddings(kEmbeddings, id) = {}

\* C15: in every state reached through create, update and delete of knowledge
\* entries, an entry that is unpublished or deleted has no VectorEmbedding row.
C15_UnpublishedHasNoRows == NoRowsOf(Unpublished)

\* a published entry with rows has been un-published by a successful update
C15_Witness ==
  /\ Wrote({"update"}) /\ ~kCall.entry.published
  /\ RowsOfCall # {}

\* the part of C15 about DeleteKnowledgeEntry
DeletedHasNoRows == NoRowsOf(Deleted)

\* a step that is a CreateKnowledgeEntry or an UpdateKnowledgeEntry
WriteStep == kCalls' = kCalls + 1 /\ kCall'.op \in {"create", "update"}
\* the call of the step failed while embedding a chunk, storing its vector or
\* inserting its row
ChunkFailed(call) ==
  /\ call.entry.published
  /\ call.fail.step \in {"embed", "store", "row"}
  /\ call.fail.chunk <= Len(ChunkText(FullText(call.entry), EmbeddingChunkSize))
\* the entry of the call and one row per chunk of it are in the tables
VisibleTogether(call, entries, embeddings) ==
  /\ call.id \in DOMAIN entries
  /\ entries[call.id] = EntryRow(call.entry)
  /\ call.entry.published =>
        Cardinality(LiveEmbeddings(embeddings, call.id))
          = Len(ChunkText(FullText(call.entry), EmbeddingChunkSize))

\* C16: a CreateKnowledgeEntry or UpdateKnowledgeEntry that fails at a chunk
\* returns an error, and a call that returns an error leaves the entries and
\* the VectorEmbedding rows as they were before it; a call that succeeds
\* makes the entry and all its rows visible in one step.
C16_WritesAreAtomic ==
  [][WriteStep =>
       /\ ChunkFailed(kCall') => ~kCall'.ok
       /\ ~kCall'.ok => kEntries' = kEntries /\ kEmbeddings' = kEmbeddings
       /\ kCall'.ok => VisibleTogether(kCall', kEntries', kEmbeddings')]_vars

\* an update of a published entry has failed at its second chunk, after the
\* rows of the entry were deleted and the first new row inserted
C16_Witness ==
  /\ kCall.op = "update" /\ ~kCall.ok
  /\ kCall.fail = [step |-> "row", chunk |-> 2] /\ ChunkFailed(kCall)
  /\ RowsOfCall # {}
  /\ kEntries[kCall.id] # EntryRow(kCall.entry)

\* the entries the last search returned
Returned == Range(searchCall.entries)
SearchedVia(path) == searchCall.path = path

\* C17: SearchKnowledgeEntries never returns an unpublished entry, whether
\* the result comes from the vector path or from the text fallback.
C17_OnlyPublishedReturned ==
  \A id \in Returned : id \in LiveEntries /\ kEntries[id].published

\* the vector search named an unpublished entry and a published one, and
\* the search answered from the vector path
C17_Witness ==
  /\ SearchedVia("vector")
  /\ Returned # {}
  /\ \E id \in Range(searchCall.vector.ids) \cap LiveEntries : ~kEntries[id].published

\* the text fallback answered while an unpublished entry matches the query
TextPathSkipsUnpublished ==
  /\ SearchedVia("text") /\ Returned # {}
  /\ \E id \in LiveEntries :
        ~kEntries[id].published /\ ILike(kEntries[id].title, SearchTerm(searchCall.query))

\* str holds sub as a run of bytes, case aside
Contains(str, sub) ==
  \E offset \in 0..(Len(str) - Len(sub)) :
     \A i \in 1..Len(sub) : ToLower(str[offset + i]) = ToLower(sub[i])
\* the title, the content or the summary of the entry holds the word
Mentions(id, word) ==
  \/ Contains(String(kEntries[id].title), String(word))
  \/ Contains(String(kEntries[id].content), String(word))
  \/ Contains(String(kEntries[id].summary), String(word))
\* the returned entries come by priority, highest first
PriorityDescending ==
  \A i \in 1..Len(searchCall.entries), j \in 1..Len(searchCall.entries) :
     i < j => kEntries[searchCall.entries[i]].priority
                >= kEntries[searchCall.entries[j]].priority
\* the last search was Search("payment error", 5) with the vector search failing
PaymentErrorSearch ==
  /\ SearchedVia("text") /\ searchCall.vector.err
  /\ searchCall.query = <<"payment", " ", "error">>
  /\ searchCall.limit = 5

\* C18: with the vector index unavailable, Search("payment error", 5)
\* returns only published entries whose title, content or summary holds
\* "payment" or "error" in any case, ordered by priority descending.
C18_PaymentErrorTextSearch ==
  PaymentErrorSearch =>
     /\ \A id \in Returned :
          /\ id \in LiveEntries /\ kEntries[id].published
          /\ Mentions(id, <<"payment">>) \/ Mentions(id, <<"error">>)
     /\ PriorityDescending

\* the search returned entries of different priorities, one of them in
\* upper case, while an unpublished entry holds the same words
C18_Witness ==
  /\ PaymentErrorSearch
  /\ \E a \in Returned, b \in Returned : kEntries[a].priority # kEntries[b].priority
  /\ \E id \in Returned : kEntries[id].content = <<"PAYMENT", " ", "error">>
  /\ \E id \in LiveEntries \ Returned :
        ~kEntries[id].published /\ Mentions(id, <<"payment">>)

\* a published entry that holds both words, in different fields, is not returned
PhraseNotWords ==
  /\ PaymentErrorSearch /\ ~searchCall.err
  /\ \E id \in LiveEntries \ Returned :
        /\ kEntries[id].published
        /\ Mentions(id, <<"payment">>) /\ Mentions(id, <<"error">>)

\* the published entries that hold the query as a substring, case aside
SubstringMatches(query) ==
  {id \in LiveEntries : kEntries[id].published /\ Mentions(id, query)}
\* the returned entries come by priority, then by view count, highest first
PriorityThenViewsDescending ==
  \A i \in 1..Len(searchCall.entries), j \in 1..Len(searchCall.entries) :
     i < j => Precedes(kEntries[searchCall.entries[i]], kEntries[searchCall.entries[j]])
\* what the claim says of a text result
IsSubstringResult ==
  /\ Returned \subseteq SubstringMatches(searchCall.query)
  /\ PriorityThenViewsDescending
  /\ Len(searchCall.entries) <= searchCall.limit

\* C19: when the vector search errors or yields nothing, the search returns
\* published entries whose title, content or summary holds the query string
\* as a substring in any case, ordered by priority descending then view
\* count descending, and never more than limit entries.
C19_TextFallbackIsSubstringMatch ==
  (SearchedVia("text") /\ ~searchCall.err) => IsSubstringResult

\* a query with a LIKE wildcard returned an entry that does not hold it
C19_Witness ==
  /\ SearchedVia("text") /\ ~searchCall.err
  /\ \E id \in Returned : ~Mentions(id, searchCall.query)

\* the text result of a query without % and _ is as C19 says
WildcardFreeIsSubstringResult ==
  (/\ SearchedVia("text") /\ ~searchCall.err
   /\ Range(String(searchCall.query)) \cap {"%", "_"} = {}) => IsSubstringResult

\* the step in which handler p runs ChatCompletion for a request that names
\* no preferred provider
DefaultDispatch(p) ==
  /\ pc[p] = "dispatch" /\ pc'[p] # "dispatch"
  /\ req[p].svc = Enhanced
  /\ req[p].preferredProvider = NoProvider
\* the first attempt goes to the primary provider and its answer is reported
\* under that name
ServedByPrimary(p) ==
  /\ attempts'[p][1].provider = primaryProvider
  /\ attempts'[p][1].ok =>
        /\ Len(attempts'[p]) = 1
        /\ aiResponse'[p].provider = primaryProvider
        /\ aiResponse'[p].message = ReplyOf(primaryProvider)
\* the primary provider changes only in a successful SetPrimaryProvider call,
\* to the provider of that call
PrimaryChangesOnlyBySet ==
  primaryProvider' # primaryProvider =>
    setPrimary'.ok /\ setPrimary'.provider = primaryProvider'

\* C21: after a successful SetPrimaryProvider(p) the primary provider is p
\* until another successful call changes it, and every chat request without
\* preferred provider makes its first attempt against the primary provider
\* and, when that provider answers, reports it as the provider.
C21_DefaultChatUsesPrimary ==
  /\ [](setPrimary.ok => primaryProvider = setPrimary.provider)
  /\ [][PrimaryChangesOnlyBySet]_vars
  /\ [][\A p \in Procs : DefaultDispatch(p) => ServedByPrimary(p)]_vars
  /\ [](\A p \in Procs :
          (Succeeded(p) /\ Len(attempts[p]) = 1) =>
             response[p].provider = attempts[p][1].provider)

\* the service started with openai as primary, gemini was set as primary,
\* and a chat without preferred provider was then answered by gemini
C21_Witness ==
  /\ fallbackProvider = GeminiProvider
  /\ setPrimary = [provider |-> GeminiProvider, ok |-> TRUE]
  /\ \E p \in Procs :
        /\ Succeeded(p)
        /\ req[p].preferredProvider = NoProvider
        /\ attempts[p] = <<Attempt(GeminiProvider, TRUE)>>
        /\ response[p].provider = GeminiProvider

\* the local substitute of a helper for a content
Substitute(op, content) ==
  CASE op = "title" -> Truncated(content, TitleLimit)
    [] op = "summary" -> Truncated(content, SummaryLimit)
    [] OTHER -> DefaultKeywords
\* the provider call of the last helper call was not made or gave an error
NoProviderAnswer == ~helperCall.called \/ helperCall.reply # "text"

\* C22: GenerateTitle, SummarizeContent and ExtractKeywords never return an
\* error: without the provider capability, and when the provider call
\* fails, they return the local substitute (the content cut to 50 or 200
\* characters, or the default keywords).
C22_HelpersNeverFail ==
  helperCall.op # "" =>
    /\ ~helperCall.err
    /\ NoProviderAnswer =>
         helperCall.value = Substitute(helperCall.op, helperCall.content)

\* the Gemini adapter exists, its call failed, and the helper returned the error
C22_Witness ==
  /\ helperCall.op = "title" /\ helperCall.called
  /\ helperCall.reply = "error"
  /\ helperCall.err /\ helperCall.value = <<>>

\* without the Gemini adapter the helpers return the substitute and no error
LocalSubstituteWithoutAdapter ==
  (helperCall.op # "" /\ ~helperCall.called) =>
     /\ ~helperCall.err
     /\ helperCall.value = Substitute(helperCall.op, helperCall.content)
\* a content longer than the limit has been cut and marked
CutTitle ==
  /\ helperCall.op = "title" /\ ~helperCall.called
  /\ Len(helperCall.content) = TitleLimit + 1
  /\ helperCall.value = Take(helperCall.content, TitleLimit) \o Ellipsis

\* the status changes the workflow allows
StatusFlow ==
  {<<DocumentUploaded, DocumentSentToOpenAI>>,
   <<DocumentSentToOpenAI, DocumentAddedToVector>>,
   <<DocumentUploaded, DocumentProcessingFailed>>,
   <<DocumentSentToOpenAI, DocumentProcessingFailed>>}
FollowsStatusFlow ==
  /\ \A d \in 1..Len(documents) :
        \/ documents'[d].status = documents[d].status
        \/ <<documents[d].status, documents'[d].status>> \in StatusFlow
  /\ \A d \in (Len(documents) + 1)..Len(documents') :
        /\ documents'[d].status = DocumentUploaded
        /\ uploads'[d].response = DocumentUploaded
        /\ uploads'[d].writes = <<>>

\* C23: the status of a document moves only uploaded -> sent_to_openai ->
\* added_to_vector, or from uploaded or sent_to_openai to processing_failed;
\* no status is skipped or revisited, and UploadDocument returns with status
\* uploaded before any background step.
C23_StatusFlow == [][FollowsStatusFlow]_vars

\* the write of sent_to_openai failed and the document is added_to_vector
C23_Witness ==
  \E d \in 1..Len(documents) :
     /\ documents[d].status = DocumentAddedToVector
     /\ uploads[d].writes[1] = [status |-> DocumentSentToOpenAI, ok |-> FALSE]

\* the status changes of a task whose status writes all succeed
FlowWhenWritesSucceed ==
  (\A d \in 1..Len(uploads') : \A i \in 1..Len(uploads'[d].writes) :
      uploads'[d].writes[i].ok) => FollowsStatusFlow
StatusFlowWhenWritesSucceed == [][FlowWhenWritesSucceed]_vars

\* every message stored before the step is stored after it, in the same
\* place and with the same role, content, metadata and session
MessagesKept ==
  /\ Len(messages') >= Len(messages)
  /\ \A i \in 1..Len(messages) :
        /\ messages'[i].role = messages[i].role
        /\ messages'[i].content = messages[i].content
        /\ messages'[i].metadata = messages[i].metadata
        /\ messages'[i].session = messages[i].session

\* C24: stored messages are immutable and append-only: no step of
\* ProcessChat, DeleteChatSession or a session read changes the role,
\* content, metadata or session of a stored message or removes a message.
C24_MessagesImmutable == [][MessagesKept]_vars

\* a session that holds the two messages of a chat has been deleted by its
\* owner, and a later call of the owner with its id has added two messages
C24_Witness ==
  /\ deleteCall.err = ""
  /\ deleteCall.sessionID \in 1..Len(sessions)
  /\ ~sessions[deleteCall.sessionID].active
  /\ Cardinality({i \in 1..Len(messages) : messages[i].session = deleteCall.sessionID}) = 2
  /\ \E p \in Procs :
        /\ Succeeded(p)
        /\ req[p].sessionID = deleteCall.sessionID
        /\ req[p].userID = sessions[deleteCall.sessionID].user
        /\ RowsOf(callNo[p]) = {3, 4}

\* a step that is a DeleteChatSession call
DeleteStep == deleteCall' # deleteCall
\* the caller of the call owns the session it names
CallerOwns(call) ==
  call.sessionID \in 1..Len(sessions) /\ sessions[call.sessionID].user = call.userID
\* what the claim says of a DeleteChatSession call
SoftDelete(call) ==
  /\ messages' = messages
  /\ Len(sessions') = Len(sessions)
  /\ \A s \in 1..Len(sessions) :
        /\ sessions'[s].user = sessions[s].user
        /\ sessions'[s].title = sessions[s].title
        /\ (s # call.sessionID \/ sessions[s].user # call.userID) =>
              sessions'[s] = sessions[s]
  /\ IF CallerOwns(call)
       THEN call.err = "" /\ ~sessions'[call.sessionID].active
       ELSE call.err = "record not found" /\ sessions' = sessions
\* a call started with the id of a deactivated session runs in a new session
DeactivatedIdCreates ==
  \A p \in Procs :
    (/\ StartsCall(p) /\ err'[p] = NoError
     /\ req'[p].sessionID \in 1..Len(sessions)
     /\ ~sessions[req'[p].sessionID].active)
    => /\ session'[p] = Len(sessions) + 1
       /\ sessions' = Append(sessions, NewSession(req'[p].userID))

\* C25: DeleteChatSession changes only the active flag of the session with
\* that id owned by that user, removes no session and no message, leaves the
\* sessions of other users as they are (a caller who does not own the
\* session changes nothing and gets a not-found error), and a later
\* ProcessChat with the deactivated id runs in a newly created session.
C25_SoftDeleteOfOwnSession ==
  [][(DeleteStep => SoftDelete(deleteCall')) /\ DeactivatedIdCreates]_vars

\* DeleteChatSession of the owner returned an error and the session is
\* still active
C25_Witness ==
  /\ deleteCall.sessionID \in 1..Len(sessions)
  /\ sessions[deleteCall.sessionID].user = deleteCall.userID
  /\ deleteCall.err = "table not set"
  /\ sessions[deleteCall.sessionID].active

\* ChatService.DeleteChatSession of a caller who does not own the session
\* returned no error
LegacyDeleteOfForeignSession ==
  /\ deleteCall.svc = Legacy
  /\ deleteCall.sessionID \in 1..Len(sessions)
  /\ sessions[deleteCall.sessionID].user # deleteCall.userID
  /\ deleteCall.err = ""

\* the claim for the calls of EnhancedChatService whose statement is executed
EnhancedExecutedSoftDelete ==
  [][((DeleteStep /\ deleteCall'.svc = Enhanced /\ deleteCall'.err # "table not set")
        => SoftDelete(deleteCall')) /\ DeactivatedIdCreates]_vars

\* the provider of the pair that is not the given one
TheOther(provider) ==
  IF provider = OpenAIProvider THEN GeminiProvider ELSE OpenAIProvider

\* the first attempt of the call went to a provider of the pair whose adapter
\* is absent
FirstProviderAbsent(p) ==
  /\ attempts[p] # <<>>
  /\ attempts[p][1].provider \in Providers
  /\ ~attempts[p][1].adapter

\* C26: GetAvailableProviders is exactly the set of providers whose adapter
\* exists; a ChatCompletion whose first provider has no adapter counts that
\* as a failed attempt and makes its second attempt against the other
\* provider; a call fails only when no attempt was answered.
C26_AbsentAdapterTolerated ==
  /\ GetAvailableProviders = {provider \in Providers : AdapterPresent(provider)}
  /\ \A p \in Procs :
       /\ FirstProviderAbsent(p) =>
            /\ ~attempts[p][1].ok
            /\ Len(attempts[p]) = 2
            /\ attempts[p][2].provider = TheOther(attempts[p][1].provider)
       /\ (attempts[p] # <<>> /\ err[p].kind = "both AI providers failed") =>
            \A k \in 1..Len(attempts[p]) : ~attempts[p][k].ok

\* C26 witness: the preferred provider has no adapter, the second attempt
\* went to it again, and the call failed although the other provider's
\* adapter exists.
C26_Witness ==
  \E p \in Procs :
    /\ FirstProviderAbsent(p)
    /\ Len(attempts[p]) = 2
    /\ attempts[p][2].provider = attempts[p][1].provider
    /\ err[p].kind = "both AI providers failed"
    /\ AdapterPresent(TheOther(attempts[p][1].provider))

\* what holds of an absent adapter: the list is exact, the attempt is a
\* failed one that reaches no adapter, a second attempt follows against
\* s.fallbackProvider, and a call fails only when no attempt was answered
AbsentAdapterIsFailedAttempt ==
  /\ GetAvailableProviders = {provider \in Providers : AdapterPresent(provider)}
  /\ \A p \in Procs :
       /\ FirstProviderAbsent(p) =>
            /\ ~attempts[p][1].ok
            /\ Len(attempts[p]) = 2
            /\ attempts[p][2].provider = fallbackProvider
       /\ (attempts[p] # <<>> /\ err[p].kind = "both AI providers failed") =>
            \A k \in 1..Len(attempts[p]) : ~attempts[p][k].ok

\* an absent first provider whose fallback is the other provider and answers
AbsentThenOtherAnswers ==
  \E p \in Procs :
    /\ FirstProviderAbsent(p)
    /\ Len(attempts[p]) = 2
    /\ attempts[p][2].provider = TheOther(attempts[p][1].provider)
    /\ attempts[p][2].ok

\* the call of the handler ended with the error of a failed session creation
CreationFailed(p) == err[p].kind = "create session failed"

\* C27: when no existing session is reused and the creation of the new
\* session fails, ProcessChat returns that error and no response, stores no
\* message and no session, and makes no knowledge search and no provider call.
C27_FailedCreationIsFatal ==
  \A p \in Procs : CreationFailed(p) =>
    /\ pc[p] = "done"
    /\ response[p] = NoResponse
    /\ session[p] = NoSession
    /\ RowsOf(callNo[p]) = {}
    /\ ~Searched(p)
    /\ knowledgeEntries[p] = <<>> /\ ~searchErr[p]
    /\ attempts[p] = <<>>
    /\ aiResponse[p] = NoAIResponse

\* C27 witness: the second call named a session that was not reused, the
\* creation of a new one failed, and the store holds the rows of the first
\* call only.
C27_Witness ==
  \E p \in Procs : /\ CreationFailed(p)
                    /\ pc[p] = "done"
                    /\ callNo[p] = 2
                    /\ req[p].sessionID # NoSession
                    /\ Len(messages) = 2
                    /\ Len(sessions) = 1
                    /\ RowsOf(callNo[p]) = {}

\* ChatCompletion has returned to the call
CompletionReturned(p) == attempts[p] # <<>>
\* ... with an error
CompletionFailed(p) == CompletionReturned(p) /\ err[p].kind = "both AI providers failed"

\* C28: ChatCompletion returns an error exactly when its first attempt and
\* its fallback attempt have both failed, and the error names the provider
\* attempted first and the fallback provider.
C28_ErrorIffBothFail ==
  \A p \in Procs : CompletionReturned(p) =>
    /\ CompletionFailed(p) = BothAttemptsFailed(p)
    /\ ~CompletionFailed(p) => /\ LastAttempt(p).ok
                               /\ aiResponse[p] # NoAIResponse
    /\ CompletionFailed(p) =>
          /\ aiResponse[p] = NoAIResponse
          /\ err[p].primary = attempts[p][1].provider
          /\ err[p].fallback = attempts[p][2].provider
          /\ err[p].fallback = fallbackProvider

\* C28 witness: a call with a preferred provider other than the primary
\* failed on it and on the fallback, and the error names those two.
C28_Witness ==
  \E p \in Procs : /\ CompletionFailed(p)
                    /\ BothAttemptsFailed(p)
                    /\ req[p].preferredProvider \in Providers
                    /\ attempts[p][1].provider # primaryProvider
                    /\ attempts[p][1].provider # attempts[p][2].provider
                    /\ err[p].primary = attempts[p][1].provider
                    /\ err[p].fallback = attempts[p][2].provider

\* the four steps of ChatWithAssistant, in their order
FourSteps == <<"addMessage", "createRun", "wait", "listMessages">>
\* the call of the caller has returned a response
AssistantReturned(c) == assistant[c].pc = "done" /\ assistant[c].steps # <<>> /\ assistant[c].err = ""
\* the ids of the messages of a sequence
IdsOf(list) == [k \in 1..Len(list) |-> list[k].id]

\* C29: ChatWithAssistant takes its four steps in order (add the message,
\* create a run, wait for it, list the messages of the thread); the run of
\* the response is the run created in the same call, after the message of
\* the call was added, and the messages of the response are exactly the
\* listed messages whose run id is that run's, in the order listed, and none
\* of another run or of no run.
C29_FourStepsAndRunFilter ==
  \A c \in Callers :
    /\ assistant[c].steps = Take(FourSteps, Len(assistant[c].steps))
    /\ assistant[c].pc = "createRun" => assistant[c].steps = Take(FourSteps, 1)
    /\ assistant[c].pc = "wait" => assistant[c].steps = Take(FourSteps, 2)
    /\ assistant[c].pc = "list" => assistant[c].steps = Take(FourSteps, 3)
    /\ assistant[c].run # EmptyRun =>
          /\ runs[assistant[c].run].call = assistant[c].call
          /\ runs[assistant[c].run].thread = assistant[c].threadID
          /\ assistant[c].message \in 1..Len(threads[assistant[c].threadID])
    /\ AssistantReturned(c) =>
          /\ assistant[c].steps = FourSteps
          /\ assistant[c].response.runID = assistant[c].run
          /\ assistant[c].response.runID # EmptyRun
          /\ assistant[c].response.threadID = assistant[c].threadID
          /\ IdsOf(assistant[c].response.messages) =
                IdsOf(SelectSeq(assistant[c].listed,
                                LAMBDA msg : msg.runID = assistant[c].response.runID))
          /\ \A k \in 1..Len(assistant[c].response.messages) :
                assistant[c].response.messages[k].runID = assistant[c].response.runID

\* C29 witness: a call has returned the message of its own run while the
\* messages it listed held one of another run and the user messages.
C29_Witness ==
  \E c \in Callers :
    /\ AssistantReturned(c)
    /\ Len(assistant[c].response.messages) >= 1
    /\ \E k \in 1..Len(assistant[c].listed) :
          assistant[c].listed[k].runID \notin {NilRun, assistant[c].run}
    /\ \E k \in 1..Len(assistant[c].listed) : assistant[c].listed[k].runID = NilRun
    /\ Len(assistant[c].response.messages) < Len(assistant[c].listed)

\* the call has stored its inbound message: the row is in the store, written
\* by this call, with role user and the text of the request
UserMessageStored(p) ==
  /\ userMessage[p] \in RowsOf(callNo[p])
  /\ messages[userMessage[p]] = UserMessageRow(session[p], req[p].message)

\* a provider adapter or the orchestrator has been called for the call
ProviderCalled(p) == attempts[p] # <<>>

\* C30: in every ProcessChat execution the inbound user message is in the
\* store before the knowledge search is made and before a provider is
\* called (the row is among those the store held when the search and the
\* history read were made); a call whose user message failed to persist
\* makes no knowledge search and no provider call.
C30_UserMessageFirst ==
  \A p \in Procs :
    /\ pc[p] = "history" => UserMessageStored(p) /\ ~Built(p) /\ ~ProviderCalled(p)
    /\ (Searched(p) \/ ProviderCalled(p)) =>
          /\ UserMessageStored(p)
          /\ userMessage[p] <= snapLen[p]
    /\ ProviderCalled(p) => Searched(p)
    /\ err[p].kind = "save user message failed" =>
          /\ pc[p] = "done"
          /\ RowsOf(callNo[p]) = {}
          /\ ~Searched(p)
          /\ knowledgeEntries[p] = <<>> /\ ~searchErr[p]
          /\ ~ProviderCalled(p)

\* C30 witness: the second call of the handler has searched and called the
\* provider, and its user row was in the store before both.
C30_Witness ==
  \E p \in Procs : /\ callNo[p] = 2
                    /\ Searched(p)
                    /\ ProviderCalled(p)
                    /\ UserMessageStored(p)
                    /\ userMessage[p] = snapLen[p]
                    /\ knowledgeEntries[p] # <<>>

\* a call whose user message failed to persist has returned; the store holds
\* the rows of the call before it
UserMessageNotPersisted ==
  \E p \in Procs : /\ err[p].kind = "save user message failed"
                    /\ callNo[p] = 2
                    /\ Len(messages) = 2
                    /\ ~Searched(p)

\* the call of the handler got a session of its own making
CreatedSession(p) == Started(p) /\ session[p] # NoSession /\ session[p] # req[p].sessionID

\* the rows of the call's session that the store held when the call read
\* its history, the call's own user row left out
OthersRowsAtRead(p) ==
  {i \in 1..snapLen[p] : messages[i].session = session[p] /\ i # userMessage[p]}

\* C31: calls on the same session id are not serialised.  A call reads into
\* its history every row its session held at that moment, the unanswered
\* user row of a call in progress included, and two calls that each found no
\* session to reuse each hold a new session of their own.
C31_CallsNotSerialised ==
  \A p \in Procs :
    /\ (Built(p) /\ Cardinality(SessionRowsAtRead(p)) <= HistoryLimit) =>
          Range(recentMessages[p]) \ {userMessage[p]} = OthersRowsAtRead(p)
    /\ \A q \in Procs \ {p} :
          (CreatedSession(p) /\ CreatedSession(q)) =>
             /\ session[p] # session[q]
             /\ sessions[session[p]] = NewSession(req[p].userID)
             /\ sessions[session[q]] = NewSession(req[q].userID)

\* C31 witness: two calls with the same valid session id have both stored
\* their user message, neither has stored a reply, and the history of one
\* holds the unanswered user message of the other.
C31_Witness ==
  \E p \in Procs : \E q \in Procs \ {p} :
    /\ req[p].sessionID = 1 /\ req[q].sessionID = 1
    /\ session[p] = 1 /\ session[q] = 1
    /\ Len(messages) = 2
    /\ \A i \in 1..Len(messages) : messages[i].role = "user"
    /\ UserMessageStored(p) /\ UserMessageStored(q)
    /\ pc[p] = "saveAssistant" /\ pc[q] \in {"history", "dispatch", "saveAssistant"}
    /\ userMessage[q] \in Range(recentMessages[p])
    /\ \E k \in 1..Len(aiMessages[p]) - 1 : aiMessages[p][k] = UserTurn(req[q].message)

\* two calls with the same id that resolves to no session have left two new
\* sessions
TwoNewSessions ==
  \E p \in Procs : \E q \in Procs \ {p} :
    /\ req[p].sessionID = UnknownSession /\ req[q].sessionID = UnknownSession
    /\ pc[p] = "saveUser" /\ pc[q] = "saveUser"
    /\ CreatedSession(p) /\ CreatedSession(q)
    /\ Len(sessions) = 3

\* the statuses in which no processing is pending
TerminalDocumentStatuses == {DocumentAddedToVector, DocumentProcessingFailed}
\* document d was accepted
Accepted(d) == d \in 1..Len(documents)
\* a status write of the task of document d has failed
SomeWriteFailed(d) ==
  d \in 1..Len(uploads) /\ \E i \in 1..Len(uploads[d].writes) : ~uploads[d].writes[i].ok

\* C32: with every external call returning and the background task
\* scheduled fairly, every document accepted by UploadDocument eventually
\* has status added_to_vector or processing_failed.
C32_EventuallyTerminal ==
  \A d \in 1..MaxDocuments :
    Accepted(d) ~> (Accepted(d) /\ documents[d].status \in TerminalDocumentStatuses)

\* C32 witness: the task of a document has returned and the document is
\* left in sent_to_openai, the write of its last status having failed.
C32_Witness ==
  \E d \in 1..Len(documents) :
    /\ uploads[d].step = "returned"
    /\ documents[d].status = DocumentSentToOpenAI
    /\ ~uploads[d].writes[Len(uploads[d].writes)].ok

\* every accepted document reaches a terminal status unless one of the
\* status writes of its task fails
TerminalUnlessWriteFails ==
  \A d \in 1..MaxDocuments :
    Accepted(d) ~> (\/ Accepted(d) /\ documents[d].status \in TerminalDocumentStatuses
                    \/ SomeWriteFailed(d))

\* C33: in every state reached from NewUnifiedAIService through
\* SetPrimaryProvider calls the fallback provider differs from the primary
\* provider, and a request without preferred provider never makes its second
\* attempt against the provider of its first.
C33_FallbackDiffersFromPrimary ==
  /\ fallbackProvider # primaryProvider
  /\ \A p \in Procs :
       (req[p].preferredProvider = NoProvider /\ Len(attempts[p]) = 2) =>
          attempts[p][2].provider # attempts[p][1].provider

\* C33 witness: SetPrimaryProvider made the fallback provider the primary,
\* and a request without preferred provider was then tried twice on it.
C33_Witness ==
  /\ setPrimary.ok
  /\ primaryProvider = setPrimary.provider
  /\ fallbackProvider = primaryProvider
  /\ \E p \in Procs :
       /\ req[p].preferredProvider = NoProvider
       /\ Len(attempts[p]) = 2
       /\ attempts[p][1].provider = primaryProvider
       /\ attempts[p][2].provider = primaryProvider
       /\ attempts[p][1].adapter

\* a row is added to the store in the step
MessageWritten == Len(messages') = Len(messages) + 1
\* the session of the row the step adds is active when the row is written
WrittenIntoActive ==
  /\ messages'[Len(messages')].session \in 1..Len(sessions)
  /\ sessions[messages'[Len(messages')].session].active

ResolvedWhileActive ==
  [][\A p \in Procs :
       (session'[p] # session[p] /\ session'[p] # NoSession) =>
          sessions'[session'[p]].active]_vars

\* the owner of the session a row belongs to
OwnerOfRow(i) == sessions[messages[i].session].user

\* C35: sessions are isolated between users.  Whatever session id the call
\* of a user supplies, the session the call works in is owned by that user,
\* the rows the call writes go into it, and every row read for the history
\* sent to the provider belongs to that same session, so that no row of
\* another user's session reaches the call.
C35_SessionsIsolated ==
  \A p \in Procs : (Started(p) /\ session[p] # NoSession) =>
    /\ sessions[session[p]].user = req[p].userID
    /\ \A i \in RowsOf(callNo[p]) :
          /\ messages[i].session = session[p]
          /\ OwnerOfRow(i) = req[p].userID
    /\ \A k \in 1..Len(recentMessages[p]) :
          /\ messages[recentMessages[p][k]].session = session[p]
          /\ OwnerOfRow(recentMessages[p][k]) = req[p].userID
    /\ Built(p) => Len(History(p)) <= Cardinality(SessionRowsAtRead(p))

\* C35 witness: a user supplied the id of another user's session, which
\* holds messages; the call was answered in a new session of the caller,
\* with an empty history.
C35_Witness ==
  \E p \in Procs :
    /\ Succeeded(p)
    /\ req[p].userID = "u2"
    /\ req[p].sessionID = 1
    /\ sessions[1].user = "u1"
    /\ \E i \in 1..Len(messages) : messages[i].session = 1
    /\ session[p] = 2
    /\ sessions[2].user = "u2"
    /\ History(p) = <<>>
    /\ \A i \in RowsOf(callNo[p]) : messages[i].session = 2

\* the live VectorEmbedding rows that carry the id of point v
RowsOfPoint(v) ==
  {i \in 1..Len(kEmbeddings) : ~kEmbeddings[i].deleted /\ kEmbeddings[i].vectorID = v}

\* every point of the index has a current local row
NoOrphanPoint ==
  \A v \in 1..Len(vectors) :
    \E i \in RowsOfPoint(v) : kEmbeddings[i].entry = vectors[v].entry

\* every current local row points at a point of its entry in the index
NoDanglingRow ==
  \A i \in 1..Len(kEmbeddings) : ~kEmbeddings[i].deleted =>
    /\ kEmbeddings[i].vectorID \in 1..Len(vectors)
    /\ vectors[kEmbeddings[i].vectorID].entry = kEmbeddings[i].entry
    /\ vectors[kEmbeddings[i].vectorID].text = kEmbeddings[i].chunkText

\* C36: after any sequence of CreateKnowledgeEntry, UpdateKnowledgeEntry and
\* DeleteKnowledgeEntry calls, failed ones included, every vector the
\* external index holds for an entry has a current local VectorEmbedding
\* row with its id, and the vector id of every local row exists in the index.
C36_IndexMatchesRows == NoOrphanPoint /\ NoDanglingRow

\* C36 witness: an entry was deleted without error, it has no current row
\* left, and the index still holds a vector of it.
C36_Witness ==
  /\ kCall.op = "delete" /\ kCall.ok
  /\ LiveEmbeddings(kEmbeddings, kCall.id) = {}
  /\ \E v \in 1..Len(vectors) : vectors[v].entry = kCall.id /\ RowsOfPoint(v) = {}

\* a write that failed and was rolled back has left a vector in the index
OrphanAfterRollback ==
  /\ kCall.op = "create" /\ ~kCall.ok
  /\ kCall.id \notin DOMAIN kEntries
  /\ \E v \in 1..Len(vectors) : vectors[v].entry = kCall.id

\* the rows of a bucket in each table
TopicRows(b) == {i \in 1..Len(topicStats) : topicStats[i].topicID = b}
TimeRows(b) == {i \in 1..Len(timeStats) : timeStats[i].timeRange = TimeRangeOf(b)}
\* no request is inside the tracking logic
NoneTracking == \A h \in Procs : tracker[h].pc \in {"idle", "done"}

\* C37: the counters of a bucket lose no update under concurrency: when N
\* requests of the bucket have passed the tracking step, in any
\* interleaving, the bucket has exactly one TopicQuestionStat row and one
\* TimeDistributionStat row and each row's count is N.
C37_CountersLoseNoUpdate ==
  NoneTracking =>
    \A b \in Buckets : tracked[b] >= 1 =>
      /\ Cardinality(TopicRows(b)) = 1
      /\ Cardinality(TimeRows(b)) = 1
      /\ \A i \in TopicRows(b) : topicStats[i].count = tracked[b]
      /\ \A i \in TimeRows(b) : timeStats[i].count = tracked[b]

\* C37 witness: two requests of one bucket have passed the tracking step;
\* the bucket has two topic rows with count 1 and one time row with count 1.
C37_Witness ==
  /\ NoneTracking
  /\ tracked[1] = 2 /\ tracked[2] = 0
  /\ Cardinality(TopicRows(1)) = 2
  /\ \A i \in TopicRows(1) : topicStats[i].count = 1
  /\ Cardinality(TimeRows(1)) = 1
  /\ \A i \in TimeRows(1) : timeStats[i].count = 1

\* an update is lost on an existing row: three requests of the bucket have
\* passed and the one topic row counts two
LostIncrement ==
  /\ NoneTracking
  /\ tracked[1] = 3
  /\ Cardinality(TopicRows(1)) = 1
  /\ \A i \in TopicRows(1) : topicStats[i].count = 2

\* the counts never exceed the requests that have reached the tracking logic
CountsBounded ==
  /\ \A i \in 1..Len(topicStats) : topicStats[i].count <= trackCalls
  /\ \A i \in 1..Len(timeStats) : timeStats[i].count <= trackCalls
  /\ \A b \in Buckets : Cardinality(TimeRows(b)) <= 1

(* ------------------ the list handed to the adapter -------------------- *)
\* GeminiService.ChatCompletion: req.Messages[:len(req.Messages)-1] is the
\* chat history, taken only if len(req.Messages) > 1
GeminiHistory(msgs) == IF Len(msgs) > 1 THEN SubSeq(msgs, 1, Len(msgs) - 1) ELSE <<>>

\* currentMessage := req.Messages[len(req.Messages)-1]: the index used
GeminiCurrentIndex(msgs) == Len(msgs) - 1

\* a slice index that does not panic
IndexInRange(i, msgs) == 0 <= i /\ i < Len(msgs)

\* the call has handed its message list to a provider adapter
HandedToAdapter(p) == AdapterAttempts(p) # {}

\* the call has handed its message list to the Gemini adapter
HandedToGemini(p) ==
  \E k \in AdapterAttempts(p) : attempts[p][k].provider = GeminiProvider

\* C38: the message list handed to a provider adapter is never empty and its
\* last element is the current request's text with role user, for every
\* session state, a new session with no history and a failed read of the
\* history included; the index the Gemini adapter uses for the last message
\* is in range, and what it sends as the current message is that text.
C38_CurrentMessageLast ==
  \A p \in Procs : HandedToAdapter(p) =>
    /\ Len(aiMessages[p]) >= 1
    /\ aiMessages[p][Len(aiMessages[p])] = UserTurn(req[p].message)
    /\ IndexInRange(GeminiCurrentIndex(aiMessages[p]), aiMessages[p])
    /\ aiMessages[p][GeminiCurrentIndex(aiMessages[p]) + 1].content = req[p].message
    /\ GeminiHistory(aiMessages[p]) \o <<UserTurn(req[p].message)>> = aiMessages[p]

\* C38 witness: a call on a new session whose history read failed has
\* reached the Gemini adapter with a list of one message.
C38_Witness ==
  \E p \in Procs :
    /\ HandedToGemini(p)
    /\ req[p].svc = Enhanced
    /\ histErr[p]
    /\ CreatedSession(p)
    /\ Len(aiMessages[p]) = 1
    /\ GeminiHistory(aiMessages[p]) = <<>>

\* a call with history has reached the Gemini adapter as well
GeminiWithHistory ==
  \E p \in Procs : HandedToGemini(p) /\ Len(GeminiHistory(aiMessages[p])) >= 2

(* ------------------------- provider comparison ------------------------ *)
\* the keys under which the comparison has recorded a response
Answered == {k \in CompareKeys : compare.responses[k].ok}

\* the keys under which the comparison has recorded an error
Errored == {k \in CompareKeys : compare.errors[k] # ""}

\* the providers of the comparison whose ProcessChat call has returned
Compared == {compare.providers[j] : j \in 1..(compare.i - 1)}

\* C39: in CompareProviders the response recorded under a provider key was
\* produced by that provider (its provider field is the key), so that a
\* provider that fails is recorded under errors and not answered by another
\* provider; and each compared provider runs in a session created for it.
C39_ResponseByRequestedProvider ==
  /\ \A k \in Answered : compare.responses[k].provider = k
  /\ \A k \in Answered : compare.responses[k].sessionID > compare.sessionsBefore
  /\ \A k1 \in Answered : \A k2 \in Answered :
        k1 # k2 => compare.responses[k1].sessionID # compare.responses[k2].sessionID

\* C39 witness: a finished comparison of openai and gemini holds, under the
\* key openai, a response that the Gemini adapter produced.
C39_Witness ==
  /\ compare.pc = "done"
  /\ compare.providers = <<OpenAIProvider, GeminiProvider>>
  /\ OpenAIProvider \in Answered
  /\ compare.responses[OpenAIProvider].provider = GeminiProvider

\* what does hold: a recorded response was produced by the provider of its
\* key or by the fallback provider, every compared provider has an entry in
\* one of the two maps, and the calls of a comparison run in sessions
\* created during the comparison, one each.
ResponseByRequestedOrFallback ==
  /\ \A k \in Answered : compare.responses[k].provider \in {k, fallbackProvider}
  /\ Compared = Answered \cup Errored
  /\ \A k \in Answered : compare.responses[k].sessionID > compare.sessionsBefore
  /\ \A k1 \in Answered : \A k2 \in Answered :
        k1 # k2 => compare.responses[k1].sessionID # compare.responses[k2].sessionID

\* a name that is no provider is answered as well: by the fallback provider
UnknownNameAnswered ==
  /\ OtherProvider \in Answered
  /\ compare.responses[OtherProvider].provider = fallbackProvider

(* ------------------------------ chunking ------------------------------ *)
RECURSIVE WordsOfChunks(_)
\* the whitespace-separated words of the chunks, in chunk order
WordsOfChunks(chunks) ==
  IF chunks = <<>> THEN <<>> ELSE Fields(Head(chunks)) \o WordsOfChunks(Tail(chunks))

\* no word of the text is longer than the size
NoWordLongerThan(text, size) ==
  \A k \in 1..Len(Fields(text)) : TextLen(Fields(text)[k]) <= size

\* C40: ChunkText loses and duplicates nothing: for every text and chunk
\* size the words of the returned chunks, in chunk order, are the words of
\* the text in order; no chunk is empty; a text without words yields no
\* chunk; and every chunk is at most maxChunkSize long whenever no word of
\* the text is longer than maxChunkSize.
C40_ChunksKeepTheWords ==
  chunkCall.called =>
    LET text == chunkCall.text
        size == chunkCall.maxChunkSize
        chunks == chunkCall.chunks
    IN /\ WordsOfChunks(chunks) = Fields(text)
       /\ \A k \in 1..Len(chunks) : chunks[k] # <<>> /\ Fields(chunks[k]) # <<>>
       /\ Fields(text) = <<>> => chunks = <<>>
       /\ NoWordLongerThan(text, size) =>
            \A k \in 1..Len(chunks) : TextLen(chunks[k]) <= size

\* C40 witness: a text with a line break and a blank, of three words none
\* longer than the size, has been cut into a chunk of two words that fills
\* the size and a chunk of one.
C40_Witness ==
  /\ chunkCall.called
  /\ "\n" \in Range(chunkCall.text)
  /\ Len(Fields(chunkCall.text)) = 3
  /\ NoWordLongerThan(chunkCall.text, chunkCall.maxChunkSize)
  /\ Len(chunkCall.chunks) = 2
  /\ Len(Fields(chunkCall.chunks[1])) = 2
  /\ TextLen(chunkCall.chunks[1]) = chunkCall.maxChunkSize

\* a word longer than the size is a chunk of its own, longer than the size
LongWordAlone ==
  /\ chunkCall.called
  /\ chunkCall.maxChunkSize > 0
  /\ \E k \in 1..Len(chunkCall.chunks) :
        /\ TextLen(chunkCall.chunks[k]) > chunkCall.maxChunkSize
        /\ Len(Fields(chunkCall.chunks[k])) = 1

\* a size that is not positive is the default size: two long words that do
\* not fit the default together are two chunks
DefaultSizeUsed ==
  /\ chunkCall.called
  /\ chunkCall.maxChunkSize <= 0
  /\ Len(chunkCall.chunks) = 2

\* the chunks hold no whitespace but the single blanks between their words
ChunksAreJoinedWords ==
  chunkCall.called =>
    \A k \in 1..Len(chunkCall.chunks) :
      LET chunk == chunkCall.chunks[k]
      IN /\ TrimSpace(chunk) = chunk
         /\ "\n" \notin Range(chunk)
         /\ \A j \in 1..Len(chunk) - 1 : ~(chunk[j] = " " /\ chunk[j + 1] = " ")

====
